---- MODULE Spec2Model ----
(***************************************************************************)
(* A model of the nb-lang front end: the streaming lexer                   *)
(* (src/src/parser/lexer/mod.rs) and the recursive-descent / Pratt parser  *)
(* (src/src/parser/parser/mod.rs).  Characters are one-character strings,  *)
(* texts are sequences of characters, Option<T> is a sequence of length 0  *)
(* (None) or 1 (Some).                                                     *)
(***************************************************************************)
EXTENDS Integers, Sequences, FiniteSets, TLC

VARIABLES source, lexer, calls, emitted, parser, pc, result

vars == <<source, lexer, calls, emitted, parser, pc, result>>

(***************************************************************************)
(* Option<T>                                                               *)
(***************************************************************************)
None == <<>>

Some(x) == <<x>>

\* `let v = ...;` followed by the rest of the function body K
With(v, K(_)) == K(v)

(***************************************************************************)
(* Characters and the character classes the lexer asks for.                *)
(***************************************************************************)
LF == "\n"

CR == "\r"

FF == "\f"

TAB == "\t"

\* U+0000, written as a named character
NUL == "NUL"

LowerLetters ==
    {"a","b","c","d","e","f","g","h","i","j","k","l","m",
     "n","o","p","q","r","s","t","u","v","w","x","y","z"}

UpperLetters ==
    {"A","B","C","D","E","F","G","H","I","J","K","L","M",
     "N","O","P","Q","R","S","T","U","V","W","X","Y","Z"}

DecimalDigits == {"0","1","2","3","4","5","6","7","8","9"}

\* char::is_whitespace
is_whitespace(ch) == ch \in {" ", TAB, LF, CR, FF}

\* char::is_control
is_control(ch) == ch \in {TAB, LF, CR, FF, NUL}

\* char::is_alphabetic
is_alphabetic(ch) == ch \in LowerLetters \cup UpperLetters

is_decimal_digit(ch) == ch \in DecimalDigits

is_hexadecimal_digit(ch) ==
    ch \in DecimalDigits \cup {"a","b","c","d","e","f","A","B","C","D","E","F"}

is_newline(ch) == ch \in {LF, FF, CR, NUL}

(***************************************************************************)
(* Tokens, positions and spans (src/src/parser/token.rs).                  *)
(***************************************************************************)
\* a TokenType: the variant, a sub-variant (keyword or number base) and a text
TT(kind) == [kind |-> kind, sub |-> "", text |-> <<>>]

TTText(kind, text) == [kind |-> kind, sub |-> "", text |-> text]

Active(name) == [kind |-> "Keyword", sub |-> name, text |-> <<>>]

Reserved(name) == [kind |-> "Keyword", sub |-> "Reserved", text |-> <<name>>]

NumberTT(base, text) == [kind |-> "Number", sub |-> base, text |-> text]

BooleanTT(b) == [kind |-> "Boolean", sub |-> IF b THEN "true" ELSE "false", text |-> <<>>]

KEYWORDS == {
    [text |-> <<"a","l","i","a","s">>, keyword |-> Reserved("Alias")],
    [text |-> <<"a","r","r","a","y">>, keyword |-> Reserved("Array")],
    [text |-> <<"b","r","e","a","k">>, keyword |-> Reserved("Break")],
    [text |-> <<"c","a","s","e">>, keyword |-> Reserved("Case")],
    [text |-> <<"c","l","a","s","s">>, keyword |-> Reserved("Class")],
    [text |-> <<"c","o","n","s","t">>, keyword |-> Active("Const")],
    [text |-> <<"c","o","n","t","i","n","u","e">>, keyword |-> Reserved("Continue")],
    [text |-> <<"d","o">>, keyword |-> Reserved("Do")],
    [text |-> <<"f","i","n","a","l">>, keyword |-> Reserved("Final")],
    [text |-> <<"e","l","s","e">>, keyword |-> Active("Else")],
    [text |-> <<"e","l","s","e","i","f">>, keyword |-> Active("Elseif")],
    [text |-> <<"e","x","p","o","r","t">>, keyword |-> Reserved("Export")],
    [text |-> <<"f","u","n">>, keyword |-> Active("Fun")],
    [text |-> <<"i","f">>, keyword |-> Active("If")],
    [text |-> <<"i","m","p","o","r","t">>, keyword |-> Reserved("Import")],
    [text |-> <<"i","n">>, keyword |-> Reserved("In")],
    [text |-> <<"l","e","t">>, keyword |-> Active("Let")],
    [text |-> <<"m","a","c","r","o">>, keyword |-> Reserved("Macro")],
    [text |-> <<"o","f">>, keyword |-> Reserved("Of")],
    [text |-> <<"o","v","e","r","r","i","d","e">>, keyword |-> Reserved("Override")],
    [text |-> <<"p","r","i","v","a","t","e">>, keyword |-> Reserved("Private")],
    [text |-> <<"p","r","o","t","e","c","t","e","d">>, keyword |-> Reserved("Protected")],
    [text |-> <<"p","u","b">>, keyword |-> Reserved("Pub")],
    [text |-> <<"p","u","b","l","i","c">>, keyword |-> Reserved("Public")],
    [text |-> <<"p","u","r","e">>, keyword |-> Reserved("Pure")],
    [text |-> <<"r","e","t","u","r","n">>, keyword |-> Active("Return")],
    [text |-> <<"s","t","a","t","i","c">>, keyword |-> Reserved("Static")],
    [text |-> <<"s","t","r","u","c","t">>, keyword |-> Reserved("Struct")],
    [text |-> <<"s","w","i","t","c","h">>, keyword |-> Reserved("Switch")],
    [text |-> <<"t","h","i","s">>, keyword |-> Reserved("This")],
    [text |-> <<"t","r","a","i","t">>, keyword |-> Reserved("Trait")],
    [text |-> <<"u","n","l","e","s","s">>, keyword |-> Active("Unless")],
    [text |-> <<"u","s","e">>, keyword |-> Reserved("Use")],
    [text |-> <<"v","i","r","t","u","a","l">>, keyword |-> Reserved("Virtual")],
    [text |-> <<"w","h","i","l","e">>, keyword |-> Active("While")],
    [text |-> <<"y","i","e","l","d">>, keyword |-> Reserved("Yield")]
    }

\* lookup that also finds a keyword followed by `?`
lookup_strips_mark(ident) ==
    With({k \in KEYWORDS : k.text = ident \/ k.text \o <<"?">> = ident},
         LAMBDA found :
             IF found = {} THEN None ELSE Some((CHOOSE k \in found : TRUE).keyword))

\* Keyword::lookup
lookup(ident) ==
    With({k \in KEYWORDS : k.text = ident}, LAMBDA found :
        IF found = {} THEN None ELSE Some((CHOOSE k \in found : TRUE).keyword))

Position(line, column) == [line |-> line, column |-> column]

\* PositionOrSpan::Position
AtPosition(pos) == [tag |-> "Position", begin |-> pos, end |-> pos]

\* Span::new wrapped in PositionOrSpan::Span
Span(begin, end) == [tag |-> "Span", begin |-> begin, end |-> end]

\* the derived Ord of Position: lexicographic on (line, column)
PosLeq(a, b) == a.line < b.line \/ (a.line = b.line /\ a.column <= b.column)

PosLt(a, b) == a.line < b.line \/ (a.line = b.line /\ a.column < b.column)

Token(token_type, location) == [token_type |-> token_type, location |-> location]

(***************************************************************************)
(* Errors (src/src/parser/lexer/error.rs).                                 *)
(***************************************************************************)
NoTT == TT("")

Error(kind, text, token_type, location) ==
    [kind |-> kind, text |-> text, token_type |-> token_type, location |-> location]

(***************************************************************************)
(* The lexer (src/src/parser/lexer/mod.rs).  `input` is what is left in    *)
(* the Peekable<Chars> iterator.                                           *)
(***************************************************************************)
Lexer_peek(lx) == IF lx.input = <<>> THEN None ELSE Some(Head(lx.input))

\* the position after a character was read: a new line starts when the
\* previous character is a newline, unless the two are CR LF
PositionAfter(previous, current, position) ==
    LET p1 == IF /\ previous # None
                  /\ is_newline(previous[1])
                  /\ ~(previous[1] = CR /\ current = LF)
              THEN [line |-> position.line + 1, column |-> 0]
              ELSE position
    IN [line |-> p1.line, column |-> p1.column + 1]

\* read with the column counted even when the iterator is exhausted
read_counts_at_end(lx) ==
    IF lx.input = <<>>
    THEN [current_char |-> None, input |-> <<>>,
          position |-> [line |-> lx.position.line, column |-> lx.position.column + 1]]
    ELSE [current_char |-> Some(Head(lx.input)), input |-> Tail(lx.input),
          position |-> PositionAfter(lx.current_char, Head(lx.input), lx.position)]

\* read with the column restarted but the line not incremented
read_keeps_line(lx) ==
    IF lx.input = <<>>
    THEN [current_char |-> None, input |-> <<>>, position |-> lx.position]
    ELSE [current_char |-> Some(Head(lx.input)), input |-> Tail(lx.input),
          position |->
              IF /\ lx.current_char # None
                 /\ is_newline(lx.current_char[1])
                 /\ ~(lx.current_char[1] = CR /\ Head(lx.input) = LF)
              THEN [line |-> lx.position.line, column |-> 1]
              ELSE [line |-> lx.position.line, column |-> lx.position.column + 1]]

\* read with a new line started at the LF of a CR LF pair as well
read_splits_crlf(lx) ==
    IF lx.input = <<>>
    THEN [current_char |-> None, input |-> <<>>, position |-> lx.position]
    ELSE [current_char |-> Some(Head(lx.input)), input |-> Tail(lx.input),
          position |->
              IF lx.current_char # None /\ is_newline(lx.current_char[1])
              THEN [line |-> lx.position.line + 1, column |-> 1]
              ELSE [line |-> lx.position.line, column |-> lx.position.column + 1]]

\* read with the new line started when the terminator itself is read
read_line_at_terminator(lx) ==
    IF lx.input = <<>>
    THEN [current_char |-> None, input |-> <<>>, position |-> lx.position]
    ELSE [current_char |-> Some(Head(lx.input)), input |-> Tail(lx.input),
          position |->
              IF /\ is_newline(Head(lx.input))
                 /\ ~(lx.current_char = Some(CR) /\ Head(lx.input) = LF)
              THEN [line |-> lx.position.line + 1, column |-> 1]
              ELSE [line |-> lx.position.line, column |-> lx.position.column + 1]]

\* Lexer::read
read(lx) ==
    IF lx.input = <<>>
    THEN [current_char |-> None, input |-> <<>>, position |-> lx.position]
    ELSE [current_char |-> Some(Head(lx.input)), input |-> Tail(lx.input),
          position |-> PositionAfter(lx.current_char, Head(lx.input), lx.position)]

\* Lexer::new
Lexer_new(input) ==
    read([current_char |-> None, input |-> input, position |-> Position(1, 0)])

\* Itertools::peeking_take_while over the characters of class S:
\* the number of leading characters of s that are taken
RECURSIVE TakeLen(_, _)
TakeLen(s, S) ==
    IF s # <<>> /\ Head(s) \in S THEN 1 + TakeLen(Tail(s), S) ELSE 0

IdentChars == LowerLetters \cup UpperLetters \cup {"_"}

NumberChars ==
    DecimalDigits \cup {"a","b","c","d","e","f","A","B","C","D","E","F","_"}

NewlineChars == {LF, FF, CR, NUL}

\* the lexer after n characters were taken by peeking_take_while
Taken(lx, n) == [lx EXCEPT !.input = SubSeq(lx.input, n + 1, Len(lx.input))]

\* Lexer::read_identifier: the text and the lexer afterwards
read_identifier(lx) ==
    With(TakeLen(lx.input, IdentChars), LAMBDA n :
        IF n < Len(lx.input) /\ lx.input[n + 1] = "?"
        THEN [lx |-> read(Taken(lx, n)),
              st |-> <<lx.current_char[1]>> \o SubSeq(lx.input, 1, n) \o <<"?">>]
        ELSE [lx |-> Taken(lx, n),
              st |-> <<lx.current_char[1]>> \o SubSeq(lx.input, 1, n)])

\* the closure of the block-comment branch of read_comment: the number of
\* characters taken while last_ch # '*' and ch # '/'
RECURSIVE BlockCommentLen(_, _)
BlockCommentLen(s, last_ch) ==
    IF s # <<>> /\ last_ch # "*" /\ Head(s) # "/"
    THEN 1 + BlockCommentLen(Tail(s), Head(s))
    ELSE 0

\* Lexer::read_comment
read_comment(lx) ==
    With(IF lx.current_char = Some("/")
         THEN TakeLen(lx.input, NewlineChars)
         ELSE BlockCommentLen(lx.input, NUL),
         LAMBDA n : [lx |-> Taken(lx, n), st |-> SubSeq(lx.input, 1, n)])

\* Lexer::read_number
read_number(lx) ==
    With(TakeLen(lx.input, NumberChars), LAMBDA n :
        [lx |-> Taken(lx, n),
         st |-> <<lx.current_char[1]>> \o SubSeq(lx.input, 1, n)])

LexOk(lx, token) == [lx |-> lx, ok |-> TRUE, val |-> token]

LexErr(lx, error) == [lx |-> lx, ok |-> FALSE, val |-> error]

\* the loop of read_string without the cancelling of an escaped backslash
RECURSIVE read_string_loop_no_cancel(_, _, _)
read_string_loop_no_cancel(lx1, st, previous_ch) ==
    IF lx1.current_char = None
    THEN LexErr(lx1, Error("UnexpectedEOF", <<>>, NoTT, AtPosition(lx1.position)))
    ELSE IF is_newline(lx1.current_char[1])
    THEN LexErr(lx1, Error("UnterminatedString", <<>>, NoTT, AtPosition(lx1.position)))
    ELSE IF is_control(lx1.current_char[1])
    THEN LexErr(lx1, Error("InvalidString", st, NoTT, AtPosition(lx1.position)))
    ELSE IF previous_ch # "\\" /\ lx1.current_char[1] = "\""
    THEN LexOk(lx1, st \o lx1.current_char)
    ELSE read_string_loop_no_cancel(read(lx1), st \o lx1.current_char,
                                    lx1.current_char[1])

\* the while loop of Lexer::read_string; lx1 is the lexer after self.read()
RECURSIVE read_string_loop(_, _, _)
read_string_loop(lx1, st, previous_ch) ==
    IF lx1.current_char = None
    THEN LexErr(lx1, Error("UnexpectedEOF", <<>>, NoTT, AtPosition(lx1.position)))
    ELSE IF is_newline(lx1.current_char[1])
    THEN LexErr(lx1, Error("UnterminatedString", <<>>, NoTT, AtPosition(lx1.position)))
    ELSE IF is_control(lx1.current_char[1])
    THEN LexErr(lx1, Error("InvalidString", st, NoTT, AtPosition(lx1.position)))
    ELSE IF previous_ch = "\\" /\ lx1.current_char[1] = "\\"
    THEN read_string_loop(read(lx1), st \o lx1.current_char, NUL)
    ELSE IF previous_ch # "\\" /\ lx1.current_char[1] = "\""
    THEN LexOk(lx1, st \o lx1.current_char)
    ELSE read_string_loop(read(lx1), st \o lx1.current_char, lx1.current_char[1])

\* Lexer::read_string
read_string(lx) == read_string_loop(read(lx), lx.current_char, NUL)

\* the whitespace loop at the head of Lexer::read_token
RECURSIVE skip_spaces(_)
skip_spaces(lx) ==
    IF lx.current_char # None /\ is_whitespace(lx.current_char[1])
    THEN skip_spaces(read(lx))
    ELSE lx

OneCharTokens ==
    [ch \in {"+", "%", "^", "*", ",", ":", ";", "(", ")", "{", "}", "[", "]", "_"} |->
        CASE ch = "+" -> "Plus"
          [] ch = "%" -> "Modulo"
          [] ch = "^" -> "Power"
          [] ch = "*" -> "Multiplication"
          [] ch = "," -> "Comma"
          [] ch = ":" -> "Colon"
          [] ch = ";" -> "Semicolon"
          [] ch = "(" -> "Lparen"
          [] ch = ")" -> "Rparen"
          [] ch = "{" -> "Lbrace"
          [] ch = "}" -> "Rbrace"
          [] ch = "[" -> "Lbracket"
          [] ch = "]" -> "Rbracket"
          [] ch = "_" -> "Underscore"]

\* the table of the two-character operators with `>>` written for `>=`
TwoCharTokens_typo ==
    [ch \in {"-", "=", "!", "<", ">", "|", "&"} |->
        CASE ch = "-" -> [next |-> ">", both |-> "Arrow", alone |-> "Minus"]
          [] ch = "=" -> [next |-> "=", both |-> "EqEq", alone |-> "Eq"]
          [] ch = "!" -> [next |-> "=", both |-> "NotEq", alone |-> "Not"]
          [] ch = "<" -> [next |-> "=", both |-> "LtEq", alone |-> "Lt"]
          [] ch = ">" -> [next |-> ">", both |-> "GtEq", alone |-> "Gt"]
          [] ch = "|" -> [next |-> "|", both |-> "OrOr", alone |-> "Or"]
          [] ch = "&" -> [next |-> "&", both |-> "AndAnd", alone |-> "And"]]

\* the characters that start a two-character operator: the second character,
\* the token of the pair and the token of the character alone
TwoCharTokens ==
    [ch \in {"-", "=", "!", "<", ">", "|", "&"} |->
        CASE ch = "-" -> [next |-> ">", both |-> "Arrow", alone |-> "Minus"]
          [] ch = "=" -> [next |-> "=", both |-> "EqEq", alone |-> "Eq"]
          [] ch = "!" -> [next |-> "=", both |-> "NotEq", alone |-> "Not"]
          [] ch = "<" -> [next |-> "=", both |-> "LtEq", alone |-> "Lt"]
          [] ch = ">" -> [next |-> "=", both |-> "GtEq", alone |-> "Gt"]
          [] ch = "|" -> [next |-> "|", both |-> "OrOr", alone |-> "Or"]
          [] ch = "&" -> [next |-> "&", both |-> "AndAnd", alone |-> "And"]]

\* the token of an identifier text: Boolean, Keyword or Identifier
WordToken(ident) ==
    IF ident = <<"t","r","u","e">> THEN BooleanTT(TRUE)
    ELSE IF ident = <<"f","a","l","s","e">> THEN BooleanTT(FALSE)
    ELSE With(lookup(ident), LAMBDA k :
             IF k # None THEN k[1] ELSE TTText("Identifier", ident))

NumberPrefixes ==
    [ch \in {"b", "o", "x"} |->
        CASE ch = "b" -> "Binary" [] ch = "o" -> "Octal" [] ch = "x" -> "Hexadecimal"]

\* the match on current_char of Lexer::read_token, before the final read
read_token_match(lx) ==
    IF lx.current_char = None
    THEN LexOk(lx, Token(TT("EOF"), AtPosition(lx.position)))
    ELSE IF lx.current_char[1] \in DOMAIN OneCharTokens
    THEN LexOk(lx, Token(TT(OneCharTokens[lx.current_char[1]]), AtPosition(lx.position)))
    ELSE IF lx.current_char[1] \in DOMAIN TwoCharTokens
    THEN IF Lexer_peek(lx) = Some(TwoCharTokens[lx.current_char[1]].next)
         THEN With(read(lx), LAMBDA lx1 :
                  LexOk(lx1, Token(TT(TwoCharTokens[lx.current_char[1]].both),
                                   Span(lx.position, lx1.position))))
         ELSE LexOk(lx, Token(TT(TwoCharTokens[lx.current_char[1]].alone),
                              AtPosition(lx.position)))
    ELSE IF lx.current_char[1] = "/"
    THEN IF Lexer_peek(lx) = Some("*")
         THEN With(read_comment(lx), LAMBDA r :
                  LexOk(r.lx, Token(TTText("Comment", r.st),
                                    Span(lx.position, r.lx.position))))
         ELSE LexOk(lx, Token(TT("Division"), AtPosition(lx.position)))
    ELSE IF lx.current_char[1] = "\""
    THEN With(read_string(lx), LAMBDA r :
             IF r.ok
             THEN LexOk(r.lx, Token(TTText("Literal", r.val),
                                    Span(lx.position, r.lx.position)))
             ELSE r)
    ELSE IF is_alphabetic(lx.current_char[1])
    THEN With(read_identifier(lx), LAMBDA r :
             LexOk(r.lx, Token(WordToken(r.st), Span(lx.position, r.lx.position))))
    ELSE IF is_decimal_digit(lx.current_char[1])
    THEN IF /\ lx.current_char[1] = "0"
            /\ lx.input # <<>>
            /\ Head(lx.input) \in DOMAIN NumberPrefixes
         THEN With(read_number(read(lx)), LAMBDA r :
                  LexOk(r.lx, Token(NumberTT(NumberPrefixes[Head(lx.input)], r.st),
                                    Span(lx.position, r.lx.position))))
         ELSE With(read_number(lx), LAMBDA r :
                  LexOk(r.lx, Token(NumberTT("Decimal", r.st),
                                    Span(lx.position, r.lx.position))))
    ELSE LexOk(lx, Token(TTText("Illegal", lx.current_char), AtPosition(lx.position)))

\* read_token without the final read after an Illegal token
read_token_stuck_on_illegal(lx) ==
    With(read_token_match(skip_spaces(lx)), LAMBDA r :
        IF r.ok /\ r.val.token_type.kind # "Illegal"
        THEN [r EXCEPT !.lx = read(r.lx)]
        ELSE r)

\* Lexer::read_token: the token or the error, and the lexer afterwards
read_token(lx) ==
    With(read_token_match(skip_spaces(lx)), LAMBDA r :
        IF r.ok THEN [r EXCEPT !.lx = read(r.lx)] ELSE r)

(***************************************************************************)
(* The AST (src/src/parser/ast.rs).                                        *)
(***************************************************************************)
ExIdentifier(name) == [node |-> "Identifier", name |-> name]

ExLiteral(lit) == [node |-> "Literal", lit |-> lit]

FunCall(name, args) == [node |-> "FunCall", name |-> name, args |-> args]

BinaryExpression(lhs, op, rhs) ==
    [node |-> "BinaryExpression", lhs |-> lhs, op |-> op, rhs |-> rhs]

UnaryExpression(expr, op) == [node |-> "UnaryExpression", expr |-> expr, op |-> op]

LitArray(items) == [lit |-> "Array", items |-> items]

LitNumber(num) == [lit |-> "Number", num |-> num]

LitString(st) == [lit |-> "String", st |-> st]

LitBoolean(b) == [lit |-> "Boolean", b |-> b]

\* ast::Number::Int: a value that fits 32 bits
NumInt(value) == [num |-> "Int", value |-> value]

\* ast::Number::Long: a value that fits 64 bits but not 32, kept as its digits
\* (without leading zeros) in the base it was written in
NumLong(digits, base) == [num |-> "Long", digits |-> digits, base |-> base]

\* ast::Number::Float: the f64 the text was converted to
NumFloat(value) == [num |-> "Float", value |-> value]

Type(name) == [name |-> name]

Variable(name, category) == [name |-> name, category |-> category]

VariableDeclaration(keyword, variable, value) ==
    [stmt |-> "VariableDeclaration", keyword |-> keyword, variable |-> variable,
     value |-> value]

Conditional(keyword, condition, block) ==
    [stmt |-> "Conditional", keyword |-> keyword, condition |-> condition,
     block |-> block]

Loop(keyword, condition, block) ==
    [stmt |-> "Loop", keyword |-> keyword, condition |-> condition, block |-> block]

FunDeclaration(identifier, parameters, body, return_type) ==
    [stmt |-> "FunDeclaration", identifier |-> identifier, parameters |-> parameters,
     body |-> body, return_type |-> return_type]

Return(value) == [stmt |-> "Return", value |-> value]

ExpressionStmt(expr) == [stmt |-> "Expression", expr |-> expr]

\* TryFrom<TokenType> for BinaryOperator
BinaryOperatorOf ==
    [k \in {"Division", "EqEq", "Gt", "GtEq", "Lt", "LtEq", "Minus", "Modulo",
            "Multiplication", "NotEq", "Plus", "Power"} |->
        CASE k = "Division" -> "Div"
          [] k = "EqEq" -> "EqEq"
          [] k = "Gt" -> "Gt"
          [] k = "GtEq" -> "GtEq"
          [] k = "Lt" -> "Lt"
          [] k = "LtEq" -> "LtEq"
          [] k = "Minus" -> "Min"
          [] k = "Modulo" -> "Mod"
          [] k = "Multiplication" -> "Mul"
          [] k = "NotEq" -> "NE"
          [] k = "Plus" -> "Plus"
          [] k = "Power" -> "Pow"]

\* TryFrom<TokenType> for UnaryOperator
UnaryOperatorOf == [k \in {"Not"} |-> "Not"]

(***************************************************************************)
(* Number conversion (i32/i64::from_str_radix, str::parse::<f64>).         *)
(***************************************************************************)
DigitVal ==
    [ch \in DecimalDigits \cup {"a","b","c","d","e","f","A","B","C","D","E","F"} |->
        CASE ch = "0" -> 0 [] ch = "1" -> 1 [] ch = "2" -> 2 [] ch = "3" -> 3
          [] ch = "4" -> 4 [] ch = "5" -> 5 [] ch = "6" -> 6 [] ch = "7" -> 7
          [] ch = "8" -> 8 [] ch = "9" -> 9
          [] ch \in {"a", "A"} -> 10 [] ch \in {"b", "B"} -> 11
          [] ch \in {"c", "C"} -> 12 [] ch \in {"d", "D"} -> 13
          [] ch \in {"e", "E"} -> 14 [] ch \in {"f", "F"} -> 15]

\* char::to_digit(radix).is_some()
IsDigitIn(ch, base) == ch \in DOMAIN DigitVal /\ DigitVal[ch] < base

\* str::replace("_", "")
StripUnderscores(num) == SelectSeq(num, LAMBDA c : c # "_")

RECURSIVE StripZeros(_)
StripZeros(d) ==
    IF Len(d) > 1 /\ Head(d) = "0" THEN StripZeros(Tail(d)) ELSE d

Rep(n, x) == [i \in 1..n |-> x]

\* the digits of i32::MAX and i64::MAX in each base
MaxDigits(base, bits) ==
    CASE base = 2 /\ bits = 32 -> Rep(31, 1)
      [] base = 2 /\ bits = 64 -> Rep(63, 1)
      [] base = 8 /\ bits = 32 -> <<1>> \o Rep(10, 7)
      [] base = 8 /\ bits = 64 -> Rep(21, 7)
      [] base = 16 /\ bits = 32 -> <<7>> \o Rep(7, 15)
      [] base = 16 /\ bits = 64 -> <<7>> \o Rep(15, 15)
      [] base = 10 /\ bits = 32 -> <<2,1,4,7,4,8,3,6,4,7>>
      [] base = 10 /\ bits = 64 -> <<9,2,2,3,3,7,2,0,3,6,8,5,4,7,7,5,8,0,7>>

\* d <= m for two digit sequences of the same length, most significant first
RECURSIVE DigitsLeq(_, _)
DigitsLeq(d, m) ==
    \/ d = <<>>
    \/ DigitVal[Head(d)] < Head(m)
    \/ DigitVal[Head(d)] = Head(m) /\ DigitsLeq(Tail(d), Tail(m))

\* the value does not overflow the width
Fits(digits, base, bits) ==
    LET d == StripZeros(digits)
        m == MaxDigits(base, bits)
    IN Len(d) < Len(m) \/ (Len(d) = Len(m) /\ DigitsLeq(d, m))

RECURSIVE DigitsValue(_, _, _)
DigitsValue(d, base, acc) ==
    IF d = <<>> THEN acc ELSE DigitsValue(Tail(d), base, acc * base + DigitVal[Head(d)])

\* {i32,i64}::from_str_radix(num, base).is_ok()
from_str_radix_ok(num, base, bits) ==
    /\ num # <<>>
    /\ \A i \in 1..Len(num) : IsDigitIn(num[i], base)
    /\ Fits(num, base, bits)

\* the conversion to f64 without the exponent notation
parse_f64_ok_no_exponent(num) ==
    num # <<>> /\ \A i \in 1..Len(num) : num[i] \in DecimalDigits

\* str::parse::<f64>().is_ok() for a text made of hexadecimal digits
parse_f64_ok(num) ==
    \/ num # <<>> /\ \A i \in 1..Len(num) : num[i] \in DecimalDigits
    \/ \E k \in 2..(Len(num) - 1) :
          /\ num[k] \in {"e", "E"}
          /\ \A i \in 1..(k - 1) : num[i] \in DecimalDigits
          /\ \A i \in (k + 1)..Len(num) : num[i] \in DecimalDigits

\* a non-negative f64 with an integral value: infinity, or the binary digits
\* of the value, most significant first (none for zero)
F64(bits) == [inf |-> FALSE, bits |-> bits]

F64Infinity == [inf |-> TRUE, bits |-> <<>>]

\* the significand of an f64 has 53 binary digits
MANTISSA_DIGITS == 53

\* the largest finite f64 is below 2^1024
MAX_EXP == 1024

\* the largest finite f64 is below 10^309
MAX_10_EXP == 308

\* the decimal digits of the quotient by two of a number given by its decimal
\* digits, most significant first: the remainder of a digit is carried to the
\* next one
Halve(d) ==
    SubSeq([i \in 1..Len(d) |->
               ((IF i = 1 THEN 0 ELSE d[i - 1] % 2) * 10 + d[i]) \div 2],
           1, Len(d))

\* the quotient by 2^k, by halves of k: the first quotient (it has as many
\* digits as d) is computed before it is divided further
RECURSIVE HalveN(_, _)
HalveN(d, k) ==
    IF k = 0 THEN d
    ELSE IF k = 1 THEN Halve(d)
    ELSE With(HalveN(d, k \div 2), LAMBDA h :
             IF Len(h) = Len(d) THEN HalveN(h, k - k \div 2) ELSE h)

\* the quotients of q by 1, 2, 4, ... 2^(n - 1), n >= 1
RECURSIVE Quotients(_, _)
Quotients(q, n) ==
    IF n = 1 THEN <<q>>
    ELSE Quotients(q, n \div 2) \o Quotients(HalveN(q, n \div 2), n - n \div 2)

\* the binary digits of a number given by its decimal digits, most
\* significant first: the parities of its quotients by the powers of two that
\* are not zero (there are at most four of them for each decimal digit)
ToBits(d) ==
    IF d = <<>> THEN <<>>
    ELSE With(Quotients(d, 4 * Len(d)), LAMBDA qs :
         With(Cardinality({j \in 1..Len(qs) : \E i \in 1..Len(d) : qs[j][i] # 0}),
              LAMBDA n : SubSeq([i \in 1..n |-> qs[n - i + 1][Len(d)] % 2], 1, n)))

\* the binary digits of the successor
Increment(b) ==
    IF \A i \in 1..Len(b) : b[i] = 1
    THEN <<1>> \o Rep(Len(b), 0)
    ELSE With(CHOOSE z \in 1..Len(b) :
                  b[z] = 0 /\ \A i \in (z + 1)..Len(b) : b[i] = 1,
              LAMBDA z : [i \in 1..Len(b) |->
                             IF i < z THEN b[i] ELSE IF i = z THEN 1 ELSE 0])

\* round to nearest, ties to even, at 53 significant binary digits
RoundToF64(b) ==
    IF Len(b) <= MANTISSA_DIGITS THEN b
    ELSE With(SubSeq(b, 1, MANTISSA_DIGITS), LAMBDA m :
         With(SubSeq(b, MANTISSA_DIGITS + 1, Len(b)), LAMBDA rest :
             (IF /\ rest[1] = 1
                 /\ \/ \E i \in 2..Len(rest) : rest[i] = 1
                    \/ m[MANTISSA_DIGITS] = 1
              THEN Increment(m) ELSE m) \o Rep(Len(rest), 0)))

\* the f64 nearest to the number with these decimal digits and this many
\* zeros after them
NearestF64(digits, zeros) ==
    IF \A i \in 1..Len(digits) : digits[i] = "0" THEN F64(<<>>)
    ELSE IF Len(StripZeros(digits)) + zeros > MAX_10_EXP + 1 THEN F64Infinity
    ELSE With(RoundToF64(ToBits([i \in 1..Len(digits) |-> DigitVal[digits[i]]]
                                \o Rep(zeros, 0))),
              LAMBDA b : IF Len(b) > MAX_EXP THEN F64Infinity ELSE F64(b))

\* the digits of an exponent, capped above MAX_10_EXP
ExponentValue(d) ==
    IF Len(StripZeros(d)) > 3 THEN MAX_10_EXP + 1 ELSE DigitsValue(StripZeros(d), 10, 0)

\* str::parse::<f64>().unwrap() for a text made of hexadecimal digits:
\* decimal digits, or decimal digits, `e` and the decimal digits of the exponent
parse_f64(num) ==
    IF \A i \in 1..Len(num) : num[i] \in DecimalDigits
    THEN NearestF64(num, 0)
    ELSE With(CHOOSE k \in 1..Len(num) : num[k] \in {"e", "E"}, LAMBDA k :
             NearestF64(SubSeq(num, 1, k - 1),
                        ExponentValue(SubSeq(num, k + 1, Len(num)))))

\* the conversion chain with the 64-bit conversion tried first
ConvertNumber_long_first(num, base, with_float) ==
    IF from_str_radix_ok(num, base, 64)
    THEN Some(NumLong(StripZeros(num), base))
    ELSE IF from_str_radix_ok(num, base, 32)
    THEN Some(NumInt(DigitsValue(num, base, 0)))
    ELSE IF with_float /\ parse_f64_ok(num)
    THEN Some(NumFloat(parse_f64(num)))
    ELSE None

\* the conversion chain i32 -> i64 (-> f64 for a decimal), None when all fail
ConvertNumber(num, base, with_float) ==
    IF from_str_radix_ok(num, base, 32)
    THEN Some(NumInt(DigitsValue(num, base, 0)))
    ELSE IF from_str_radix_ok(num, base, 64)
    THEN Some(NumLong(StripZeros(num), base))
    ELSE IF with_float /\ parse_f64_ok(num)
    THEN Some(NumFloat(parse_f64(num)))
    ELSE None

(***************************************************************************)
(* The parser (src/src/parser/parser/mod.rs).  A parse function takes the  *)
(* parser and returns the parser afterwards with Ok(value), Err(error) or  *)
(* Panic (an unwrap of None or of Err).                                    *)
(***************************************************************************)
LOWEST_PRECEDENCE == 0

Ok(p, v) == [p |-> p, st |-> "Ok", val |-> v]

Err(p, e) == [p |-> p, st |-> "Err", val |-> e]

Panic(p) == [p |-> p, st |-> "Panic", val |-> <<>>]

UNARY_OPERATOR_SET == {"Not"}

BINARY_OPERATOR_MAP ==
    [k \in {"EqEq", "OrOr", "AndAnd", "Not", "Plus", "Minus", "Division",
            "Multiplication", "Modulo", "Power", "Lparen", "Rparen"} |->
        CASE k \in {"EqEq", "OrOr", "AndAnd"} -> 5
          [] k = "Not" -> 10
          [] k \in {"Plus", "Minus"} -> 20
          [] k \in {"Division", "Multiplication", "Modulo"} -> 25
          [] k = "Power" -> 30
          [] k \in {"Lparen", "Rparen"} -> LOWEST_PRECEDENCE]

get_precedence(token) ==
    IF token.token_type.kind \in DOMAIN BINARY_OPERATOR_MAP
    THEN BINARY_OPERATOR_MAP[token.token_type.kind]
    ELSE LOWEST_PRECEDENCE

is_binary_operator(token_type) == token_type.kind \in DOMAIN BINARY_OPERATOR_MAP

is_unary_operator(token_type) == token_type.kind \in UNARY_OPERATOR_SET

\* mem::discriminant equality: the variant of TokenType only
is_same_tokentype(lhs, rhs) == lhs.kind = rhs.kind

error_reserved_keyword(token) ==
    Error("ReservedKeyword", <<>>, token.token_type, token.location)

error_unexpected_token(token) ==
    Error("UnexpectedToken", <<>>, token.token_type, token.location)

error_unexpected_eof(pos) == Error("UnexpectedEOF", <<>>, NoTT, AtPosition(pos))

error_expected_token(st, token) ==
    Error("ExpectedToken", <<st>>, token.token_type, token.location)

\* Parser::new / Parser::from_source
Parser_new(lx) ==
    [lexer |-> lx, cur_token |-> None, peek_token |-> None, errors |-> <<>>]

from_source(input) == Parser_new(Lexer_new(input))

\* the `?` operator: an Err (or a panic) of r is returned at once, else the
\* rest of the function body K goes on with r
Try(r, K(_)) == IF r.st # "Ok" THEN r ELSE K(r)

\* Result::map / Option::map on the value of r
MapOk(r, F(_)) == IF r.st = "Ok" THEN Ok(r.p, F(r.val)) ELSE r

\* the peek slot after the lexer returned r
PeekSlot(p1, r) ==
    IF ~r.ok
    THEN [p1 EXCEPT !.errors = Append(@, r.val), !.peek_token = None]
    ELSE IF r.val.token_type.kind = "EOF"
    THEN [p1 EXCEPT !.peek_token = None]
    ELSE IF r.val.token_type.kind = "Illegal"
    THEN [p1 EXCEPT !.errors =
              Append(@, Error("UnexpectedCharacter", r.val.token_type.text,
                              NoTT, r.val.location)),
                    !.peek_token = None]
    ELSE [p1 EXCEPT !.peek_token = Some(r.val)]

\* Parser::advance_token
advance_token(p) ==
    With(read_token(p.lexer), LAMBDA r :
        PeekSlot([p EXCEPT !.cur_token = p.peek_token, !.lexer = r.lx], r))

\* Parser::cur_token: the token taken, and the parser advanced
cur_token(p) == [p |-> advance_token(p), val |-> p.cur_token]

cur_precedence(p) ==
    IF p.cur_token = None THEN 0 ELSE get_precedence(p.cur_token[1])

peek_precedence(p) ==
    IF p.peek_token = None THEN 0 ELSE get_precedence(p.peek_token[1])

cur_token_is(p, kind) ==
    p.cur_token # None /\ is_same_tokentype(p.cur_token[1].token_type, TT(kind))

peek_token_is(p, kind) ==
    p.peek_token # None /\ is_same_tokentype(p.peek_token[1].token_type, TT(kind))

\* Parser::expect_token
expect_token(p, kind) ==
    IF cur_token_is(p, kind)
    THEN Ok(p, <<>>)
    ELSE Err(p, error_unexpected_eof(p.lexer.position))

expect_ident(p) == expect_token(p, "Identifier")

\* `match self.cur_token().unwrap()`: the token is taken and the parser
\* advanced; K goes on with both, an unwrap of None panics
TakeToken(p, K(_, _)) ==
    IF p.cur_token = None
    THEN Panic(advance_token(p))
    ELSE K(advance_token(p), p.cur_token[1])

\* `match self.cur_token().unwrap()` with one arm for the tokens of `kind`
\* and UnexpectedToken for the others
TakeKind(p, kind, F(_)) ==
    TakeToken(p, LAMBDA p1, token :
        IF token.token_type.kind = kind
        THEN Ok(p1, F(token.token_type))
        ELSE Err(p1, error_unexpected_token(token)))

\* Parser::parse_identifier
parse_identifier(p) == TakeKind(p, "Identifier", LAMBDA t : t.text)

\* Parser::parse_type
parse_type(p) == TakeKind(p, "Identifier", LAMBDA t : Type(t.text))

\* Parser::parse_string
parse_string(p) == TakeKind(p, "Literal", LAMBDA t : LitString(t.text))

\* Parser::parse_boolean
parse_boolean(p) == TakeKind(p, "Boolean", LAMBDA t : LitBoolean(t.sub = "true"))

NumberBase == [b \in {"Binary", "Octal", "Hexadecimal", "Decimal"} |->
                 CASE b = "Binary" -> 2 [] b = "Octal" -> 8
                   [] b = "Hexadecimal" -> 16 [] b = "Decimal" -> 10]

\* the inner parse_with_base of Parser::parse_number, on the text without
\* its underscores
parse_with_base(p1, num, base, location) ==
    With(ConvertNumber(num, NumberBase[base], base = "Decimal"), LAMBDA n :
        IF n = None
        THEN Err(p1, Error("InvalidNumber", num, NoTT, location))
        ELSE Ok(p1, n[1]))

\* Parser::parse_number
parse_number(p) ==
    TakeToken(p, LAMBDA p1, token :
        IF token.token_type.kind = "Number"
        THEN parse_with_base(p1, StripUnderscores(token.token_type.text),
                             token.token_type.sub, token.location)
        ELSE Err(p1, error_unexpected_token(token)))

\* a call self.parse_statement() or self.parse_expression(precedence) made
\* from inside a parse function
RECURSIVE self_call(_, _, _)
RECURSIVE parse_expression_loop(_, _, _)
RECURSIVE parse_expression_list_loop(_, _, _)
RECURSIVE parse_statement_block_loop(_, _)

\* Parser::parse_expression_list
parse_expression_list(p, terminator) ==
    IF cur_token_is(p, terminator)
    THEN Ok(advance_token(p), <<>>)
    ELSE parse_expression_list_loop(p, terminator, <<>>)

\* the while loop of Parser::parse_expression_list
parse_expression_list_loop(p, terminator, expressions) ==
    IF ~cur_token_is(p, terminator)
    THEN Try(self_call("parse_expression", p, LOWEST_PRECEDENCE), LAMBDA e :
         Try(expect_token(e.p, "Comma"), LAMBDA x :
             parse_expression_list_loop(advance_token(e.p), terminator,
                                        Append(expressions, e.val))))
    ELSE Ok(advance_token(p), expressions)

\* Parser::parse_array
parse_array(p) ==
    TakeToken(p, LAMBDA p1, token :
        IF token.token_type.kind = "Lbracket"
        THEN MapOk(parse_expression_list(p1, "Rbracket"), LitArray)
        ELSE Err(p1, error_unexpected_token(token)))

\* Parser::parse_literal
parse_literal(p) ==
    IF p.cur_token = None THEN Panic(p)
    ELSE IF p.cur_token[1].token_type.kind = "Boolean" THEN parse_boolean(p)
    ELSE IF p.cur_token[1].token_type.kind = "Literal" THEN parse_string(p)
    ELSE IF p.cur_token[1].token_type.kind = "Number"
    THEN MapOk(parse_number(p), LitNumber)
    ELSE IF p.cur_token[1].token_type.kind = "Lbracket" THEN parse_array(p)
    ELSE Err(advance_token(p), error_unexpected_token(p.cur_token[1]))

\* Parser::parse_call_expression
parse_call_expression(p) ==
    Try(parse_identifier(p), LAMBDA i :
        TakeToken(i.p, LAMBDA p1, token :
            IF token.token_type.kind = "Lparen"
            THEN MapOk(parse_expression_list(p1, "Rparen"),
                       LAMBDA args : FunCall(i.val, args))
            ELSE Err(p1, error_unexpected_token(token))))

\* Parser::parse_paren_expression: the result of expect_token is dropped
parse_paren_expression(p) ==
    Try(self_call("parse_expression", advance_token(p), LOWEST_PRECEDENCE),
        LAMBDA e : Ok(advance_token(e.p), e.val))

\* Parser::parse_prefix_expression
parse_prefix_expression(p) ==
    TakeToken(p, LAMBDA p1, token :
        IF token.token_type.kind \notin DOMAIN UnaryOperatorOf
        THEN Panic(p1)
        ELSE MapOk(self_call("parse_expression", p1, LOWEST_PRECEDENCE),
                   LAMBDA e : UnaryExpression(e, UnaryOperatorOf[token.token_type.kind])))

\* Parser::parse_binary_expression
parse_binary_expression(p, lhs) ==
    TakeToken(p, LAMBDA p1, token :
        IF token.token_type.kind \notin DOMAIN BinaryOperatorOf
        THEN Panic(p1)
        ELSE MapOk(self_call("parse_expression", p1, cur_precedence(p)),
                   LAMBDA rhs : BinaryExpression(
                       lhs, BinaryOperatorOf[token.token_type.kind], rhs)))

\* the prefix phase of Parser::parse_expression
parse_expression_prefix(p) ==
    IF p.cur_token = None
    THEN Err(p, error_unexpected_eof(p.lexer.position))
    ELSE IF p.cur_token[1].token_type.kind \in {"Literal", "Number", "Boolean", "Lbracket"}
    THEN MapOk(parse_literal(p), ExLiteral)
    ELSE IF p.cur_token[1].token_type.kind = "Lparen" THEN parse_paren_expression(p)
    ELSE IF p.cur_token[1].token_type.kind = "Identifier"
    THEN IF peek_token_is(p, "Lparen")
         THEN parse_call_expression(p)
         ELSE MapOk(parse_identifier(p), ExIdentifier)
    ELSE IF is_unary_operator(p.cur_token[1].token_type) THEN parse_prefix_expression(p)
    ELSE Err(advance_token(p), error_unexpected_token(p.cur_token[1]))

\* the infix loop of Parser::parse_expression
parse_expression_loop(p, precedence, lhs) ==
    IF ~cur_token_is(p, "Semicolon") /\ precedence < peek_precedence(p)
    THEN IF p.cur_token = None
         THEN Err(p, error_unexpected_eof(p.lexer.position))
         ELSE IF is_binary_operator(p.cur_token[1].token_type)
         THEN Try(parse_binary_expression(p, lhs), LAMBDA r :
                  parse_expression_loop(r.p, precedence, r.val))
         ELSE Err(advance_token(p),
                  error_expected_token("operateur binaire", p.cur_token[1]))
    ELSE Ok(p, lhs)

\* Parser::parse_expression
parse_expression(p, precedence) ==
    Try(parse_expression_prefix(p), LAMBDA lhs :
        parse_expression_loop(lhs.p, precedence, lhs.val))

\* Parser::parse_statement_block
parse_statement_block(p) ==
    parse_statement_block_loop(
        IF cur_token_is(p, "Lbrace") THEN advance_token(p) ELSE p, <<>>)

\* the while loop of Parser::parse_statement_block
parse_statement_block_loop(p, block) ==
    IF ~cur_token_is(p, "Rbrace")
    THEN Try(self_call("parse_statement", p, LOWEST_PRECEDENCE), LAMBDA s :
             parse_statement_block_loop(s.p, Append(block, s.val)))
    ELSE Ok(advance_token(p), block)

\* the optional `: type` of Parser::parse_variable_declaration
parse_category(p) ==
    IF cur_token_is(p, "Colon") THEN parse_type(p) ELSE Ok(p, Type(<<>>))

\* Parser::parse_variable_declaration
parse_variable_declaration(p) ==
    TakeToken(p, LAMBDA p1, token :
        IF token.token_type \notin {Active("Let"), Active("Const")}
        THEN Err(p1, error_unexpected_token(token))
        ELSE
        Try(expect_ident(p1), LAMBDA x :
        Try(parse_identifier(p1), LAMBDA ident :
        Try(parse_category(ident.p), LAMBDA category :
            IF category.p.cur_token = None
            THEN Err(category.p, error_unexpected_eof(category.p.lexer.position))
            ELSE MapOk(self_call("parse_expression", category.p, LOWEST_PRECEDENCE),
                       LAMBDA value :
                           VariableDeclaration(token.token_type.sub,
                                               Variable(ident.val, category.val),
                                               value))))))

\* the name of a parameter in Parser::parse_function_prototype
parse_parameter_name(p) ==
    IF p.cur_token = None
    THEN Err(p, error_unexpected_eof(p.lexer.position))
    ELSE IF p.cur_token[1].token_type.kind = "Identifier"
    THEN parse_identifier(p)
    ELSE Err(advance_token(p), error_expected_token("identifier", p.cur_token[1]))

\* the type of a parameter in Parser::parse_function_prototype: the token is
\* taken by cur_token() and parse_type takes the one after it
parse_parameter_type(p) ==
    IF p.cur_token = None
    THEN Err(advance_token(p), error_unexpected_eof(advance_token(p).lexer.position))
    ELSE IF p.cur_token[1].token_type.kind = "Identifier"
    THEN parse_type(advance_token(p))
    ELSE Err(advance_token(p), error_expected_token("type", p.cur_token[1]))

\* the while loop of Parser::parse_function_prototype
RECURSIVE parse_function_prototype_loop(_, _)
parse_function_prototype_loop(p, prototype) ==
    IF ~cur_token_is(p, "Rparen")
    THEN Try(parse_parameter_name(p), LAMBDA identifier :
         Try(expect_token(identifier.p, "Colon"), LAMBDA x :
         Try(parse_parameter_type(advance_token(identifier.p)), LAMBDA typ :
             parse_function_prototype_loop(
                 typ.p, Append(prototype, Variable(identifier.val, typ.val))))))
    ELSE Ok(advance_token(p), prototype)

\* Parser::parse_function_prototype
parse_function_prototype(p) == parse_function_prototype_loop(p, <<>>)

\* the return-type match of Parser::parse_function_declaration
parse_return_type(p) ==
    IF p.cur_token = None
    THEN Err(p, error_unexpected_eof(p.lexer.position))
    ELSE IF p.cur_token[1].token_type.kind = "Arrow"
    THEN Try(expect_ident(advance_token(p)), LAMBDA x :
             MapOk(parse_identifier(x.p), Type))
    ELSE Ok(advance_token(p), Type(<<>>))

\* the name of the function in Parser::parse_function_declaration
parse_function_name(p) ==
    IF cur_token_is(p, "Identifier")
    THEN parse_identifier(p)
    ELSE Err(p, error_unexpected_eof(p.lexer.position))

\* Parser::parse_function_declaration
parse_function_declaration(p) ==
    Try(parse_function_name(advance_token(p)), LAMBDA identifier :
    Try(expect_token(identifier.p, "Lparen"), LAMBDA x :
    Try(parse_function_prototype(advance_token(identifier.p)), LAMBDA parameters :
    Try(parse_return_type(parameters.p), LAMBDA return_type :
    Try(expect_token(return_type.p, "Rbrace"), LAMBDA y :
        MapOk(parse_statement_block(return_type.p), LAMBDA body :
            FunDeclaration(identifier.val, parameters.val, body,
                           return_type.val)))))))

\* Parser::parse_expression_statement
parse_expression_statement(p) ==
    Try(self_call("parse_expression", p, LOWEST_PRECEDENCE), LAMBDA expression :
    Try(expect_token(expression.p, "Semicolon"), LAMBDA x :
        Ok(advance_token(expression.p), ExpressionStmt(expression.val))))

\* Parser::parse_return
parse_return(p) ==
    Try(expect_token(p, "Keyword"), LAMBDA x :
    With(advance_token(p), LAMBDA p1 :
        IF cur_token_is(p1, "Semicolon")
        THEN Ok(advance_token(p1), Return(None))
        ELSE Try(self_call("parse_expression", p1, LOWEST_PRECEDENCE), LAMBDA expr :
                 Ok(IF cur_token_is(expr.p, "Semicolon")
                    THEN advance_token(expr.p) ELSE expr.p,
                    Return(Some(expr.val))))))

\* the keyword of a conditional: If, Unless, Elseif (an Else followed by a
\* keyword) or Else
ConditionalKeyword(p) ==
    IF p.cur_token[1].token_type = Active("If") THEN "If"
    ELSE IF p.cur_token[1].token_type = Active("Unless") THEN "Unless"
    ELSE IF peek_token_is(p, "Keyword") THEN "Elseif"
    ELSE "Else"

\* the condition of a conditional: none after Else
parse_condition(p1, keyword) ==
    IF keyword = "Else"
    THEN Ok(p1, None)
    ELSE MapOk(self_call("parse_expression", p1, LOWEST_PRECEDENCE), Some)

\* Parser::parse_conditional
parse_conditional(p) ==
    IF p.cur_token = None THEN Panic(p)
    ELSE IF p.cur_token[1].token_type \notin {Active("If"), Active("Else"), Active("Unless")}
    THEN Err(advance_token(p), error_unexpected_token(p.cur_token[1]))
    ELSE Try(parse_condition(advance_token(p), ConditionalKeyword(p)), LAMBDA condition :
         Try(expect_token(condition.p, "Lbrace"), LAMBDA x :
             MapOk(parse_statement_block(condition.p), LAMBDA block :
                 Conditional(ConditionalKeyword(p), condition.val, block))))

\* Parser::parse_while_loop
parse_while_loop(p) ==
    Try(self_call("parse_expression", advance_token(p), LOWEST_PRECEDENCE),
        LAMBDA condition :
    Try(expect_token(condition.p, "Lbrace"), LAMBDA x :
        MapOk(parse_statement_block(condition.p), LAMBDA block :
            Loop("While", Some(condition.val), block))))

\* parse_statement without the arm of the reserved keywords
parse_statement_no_reserved(p) ==
    IF p.cur_token = None THEN Panic(p)
    ELSE IF p.cur_token[1].token_type \in {Active("Let"), Active("Const")}
    THEN parse_variable_declaration(p)
    ELSE IF p.cur_token[1].token_type = Active("Fun") THEN parse_function_declaration(p)
    ELSE IF p.cur_token[1].token_type = Active("Return") THEN parse_return(p)
    ELSE IF p.cur_token[1].token_type \in {Active("Unless"), Active("If")}
    THEN parse_conditional(p)
    ELSE IF p.cur_token[1].token_type = Active("While") THEN parse_while_loop(p)
    ELSE parse_expression_statement(p)

\* Parser::parse_statement
parse_statement(p) ==
    IF p.cur_token = None THEN Panic(p)
    ELSE IF p.cur_token[1].token_type \in {Active("Let"), Active("Const")}
    THEN parse_variable_declaration(p)
    ELSE IF p.cur_token[1].token_type = Active("Fun") THEN parse_function_declaration(p)
    ELSE IF p.cur_token[1].token_type = Active("Return") THEN parse_return(p)
    ELSE IF p.cur_token[1].token_type \in {Active("Unless"), Active("If")}
    THEN parse_conditional(p)
    ELSE IF p.cur_token[1].token_type = Active("While") THEN parse_while_loop(p)
    ELSE IF /\ p.cur_token[1].token_type.kind = "Keyword"
            /\ p.cur_token[1].token_type.sub = "Reserved"
    THEN Err(advance_token(p), error_reserved_keyword(p.cur_token[1]))
    ELSE parse_expression_statement(p)

self_call(method, p, precedence) ==
    IF method = "parse_statement"
    THEN parse_statement(p)
    ELSE parse_expression(p, precedence)

Program(statements) == [statements |-> statements]

\* one turn of the statement loop of Parser::parse after parse_statement
\* returned s: the statement or the error is pushed and the token advanced
RECURSIVE parse_loop(_, _)
parse_loop_step(s, statements) ==
    IF s.st = "Panic" THEN Panic(s.p)
    ELSE IF s.st = "Ok"
    THEN parse_loop(advance_token(s.p), Append(statements, s.val))
    ELSE parse_loop(advance_token([s.p EXCEPT !.errors = Append(@, s.val)]),
                    statements)

\* the statement loop of Parser::parse and its return value
parse_loop(p, statements) ==
    IF p.cur_token # None
    THEN parse_loop_step(self_call("parse_statement", p, LOWEST_PRECEDENCE), statements)
    ELSE IF p.errors = <<>>
         THEN Ok(p, Program(statements))
         ELSE Err(p, p.errors)

\* Parser::parse
parse(p) == parse_loop(advance_token(advance_token(p)), <<>>)

(***************************************************************************)
(* Bounds and source texts.                                                *)
(***************************************************************************)
\* longest character sequence given to the lexer on its own
MaxLen == 4

\* calls of read_token made after the one that first returned EOF
MaxEofReads == 2

\* longest sequence of lexemes in a generated source
MaxToks == 3

\* most parameters in a generated function declaration
MaxParams == 2

\* most statements in a generated sequence of statements
MaxStmts == 2

\* most characters in a source made of line terminators
MaxNewlines == 5

\* longest source made of comment characters
MaxComment == 5

\* most digits after the prefix of a generated prefixed number
MaxPrefixed == 3

\* longest source made of the characters of string literals
MaxString == 5

\* longest source made of operator characters
MaxOps == 3

\* most expressions in a generated argument list or array literal
MaxArgs == 3

\* most characters in a generated decimal literal
MaxDecimal == 3

\* most characters in a generated decimal literal with hexadecimal letters
MaxHexDecimal == 4

RECURSIVE SeqsUpTo(_, _)
SeqsUpTo(S, n) ==
    IF n = 0 THEN {<<>>}
    ELSE LET shorter == SeqsUpTo(S, n - 1)
         IN shorter \cup {Append(q, x) : q \in {r \in shorter : Len(r) = n - 1}, x \in S}

\* the lexemes of ws separated by one space
RECURSIVE Join(_)
Join(ws) ==
    IF ws = <<>> THEN <<>>
    ELSE IF Len(ws) = 1 THEN ws[1]
    ELSE ws[1] \o <<" ">> \o Join(Tail(ws))

LexAlphabet == {"a", "1", "\"", "\\", LF, CR, " ", "-", ">", "?", "$"}

LexSources == SeqsUpTo(LexAlphabet, MaxLen)

\* the sources made only of the line terminators LF, CR and CR LF
NewlineSources == SeqsUpTo({LF, CR}, MaxNewlines)

\* the sources made of quotes, backslashes, a letter, a newline and a
\* control character
StringSources == SeqsUpTo({"\"", "\\", "a", LF, TAB}, MaxString)

\* `let input = 5;`
LetInputSource ==
    <<"l","e","t"," ","i","n","p","u","t"," ","="," ","5",";">>

\* the sources made of the characters of the two-character operators and a
\* letter, and the statement of tests::tokenize
OperatorSources ==
    SeqsUpTo({"-", ">", "=", "!", "<", "|", "&", "a"}, MaxOps) \cup {LetInputSource}

\* the letters in alphabetical order, to write a word with a capital
LowerSeq ==
    <<"a","b","c","d","e","f","g","h","i","j","k","l","m",
      "n","o","p","q","r","s","t","u","v","w","x","y","z">>

UpperSeq ==
    <<"A","B","C","D","E","F","G","H","I","J","K","L","M",
      "N","O","P","Q","R","S","T","U","V","W","X","Y","Z">>

Capitalized(word) ==
    <<UpperSeq[CHOOSE i \in 1..26 : LowerSeq[i] = Head(word)]>> \o Tail(word)

\* the keywords, `true`, `false` and two other words
BaseWords ==
    {k.text : k \in KEYWORDS}
        \cup {<<"t","r","u","e">>, <<"f","a","l","s","e">>, <<"a">>, <<"x","_","y">>}

\* each word as it is, with a capital, with a trailing `?`, with a trailing
\* `_`, without its last letter, and followed by another word
WordSources ==
    UNION {{w, Capitalized(w), w \o <<"?">>, w \o <<"_">>,
            SubSeq(w, 1, Len(w) - 1), w \o <<" ">> \o w} : w \in BaseWords}

\* the sources made of the characters of comments, a word and a newline
CommentSources == SeqsUpTo({"/", "*", "a", " ", LF}, MaxComment)

kw_let == <<"l","e","t">>

kw_const == <<"c","o","n","s","t">>

kw_fun == <<"f","u","n">>

kw_return == <<"r","e","t","u","r","n">>

kw_while == <<"w","h","i","l","e">>

ty_int == <<"i","n","t">>

GenWords ==
    {<<"a">>, <<"1">>, <<";">>, <<"!">>, <<"+">>, <<"|","|">>, <<"{">>, <<"}">>,
     <<"(">>, <<")">>, <<"$">>, <<",">>, <<"[">>, <<"]">>, kw_while, kw_return}

GenSources == {Join(ws) : ws \in SeqsUpTo(GenWords, MaxToks)}

ReservedSources == {k.text : k \in {r \in KEYWORDS : r.keyword.sub = "Reserved"}}

\* the binary operators of the precedence table that have a BinaryOperator
PrecOps ==
    {[text |-> <<"=","=">>, kind |-> "EqEq"], [text |-> <<"+">>, kind |-> "Plus"],
     [text |-> <<"-">>, kind |-> "Minus"], [text |-> <<"*">>, kind |-> "Multiplication"],
     [text |-> <<"/">>, kind |-> "Division"], [text |-> <<"%">>, kind |-> "Modulo"],
     [text |-> <<"^">>, kind |-> "Power"]}

\* `a o1 b o2 c;`
PrecSource(o1, o2) ==
    Join(<<(<<"a">>), o1.text, (<<"b">>), o2.text, (<<"c">>), (<<";">>)>>)

PrecSources == {PrecSource(o1, o2) : o1 \in PrecOps, o2 \in PrecOps}

\* `1 + 2 * 3 ^ 4`
ExampleExpr ==
    <<(<<"1">>), (<<"+">>), (<<"2">>), (<<"*">>), (<<"3">>), (<<"^">>), (<<"4">>)>>

\* `let x = 1 + 2 * 3 ^ 4;` and other declarations: the keyword, an optional
\* type annotation, `=`, the words of an expression and `;`
DeclSource(kw, annotated, expr) ==
    Join(<<kw, (<<"x">>)>>
         \o (IF annotated THEN <<(<<":">>), ty_int>> ELSE <<>>)
         \o <<(<<"=">>)>> \o expr \o <<(<<";">>)>>)

Ident(ch) == ExIdentifier(<<ch>>)

IntLit(n) == ExLiteral(LitNumber(NumInt(n)))

\* BinaryExpression(1, +, BinaryExpression(2, *, BinaryExpression(3, ^, 4)))
ExampleAst ==
    BinaryExpression(IntLit(1), "Plus",
        BinaryExpression(IntLit(2), "Mul",
            BinaryExpression(IntLit(3), "Pow", IntLit(4))))

\* expressions and the AST the grammar gives them
DeclExprs ==
    {[words |-> <<(<<"1">>)>>, ast |-> IntLit(1)],
     [words |-> <<(<<"a">>)>>, ast |-> Ident("a")],
     [words |-> ExampleExpr, ast |-> ExampleAst]}

DeclSources ==
    {DeclSource(kw, an, e.words) :
        kw \in {kw_let, kw_const}, an \in BOOLEAN, e \in DeclExprs}

\* `1 + 2 * 3 ^ 4 ;`
ExampleSource == Join(ExampleExpr \o <<(<<";">>)>>)

ParamNames == <<"x", "y", "z", "w", "v", "u">>

\* `x : int , y : int` for n parameters
RECURSIVE ParamWords(_)
ParamWords(n) ==
    IF n = 0 THEN <<>>
    ELSE (IF n = 1 THEN <<>> ELSE ParamWords(n - 1) \o <<(<<",">>)>>)
         \o <<(<<ParamNames[n]>>), (<<":">>), ty_int>>

\* function bodies and the statements the grammar gives them
FunBodies ==
    {[words |-> <<>>, ast |-> <<>>],
     [words |-> <<kw_return, (<<";">>)>>, ast |-> <<Return(None)>>],
     [words |-> <<kw_return, (<<"x">>), (<<"+">>), (<<"y">>), (<<";">>)>>,
      ast |-> <<Return(Some(BinaryExpression(Ident("x"), "Plus", Ident("y"))))>>]}

\* `fun f ( params ) -> int { body }`
FunSource(n, arrow, body) ==
    Join(<<kw_fun, (<<"f">>), (<<"(">>)>> \o ParamWords(n) \o <<(<<")">>)>>
         \o (IF arrow THEN <<(<<"-",">">>), ty_int>> ELSE <<>>)
         \o <<(<<"{">>)>> \o body \o <<(<<"}">>)>>)

FunSources ==
    {FunSource(n, ar, b.words) : n \in 0..MaxParams, ar \in BOOLEAN, b \in FunBodies}

\* statements for the sequences of statements
StmtPool ==
    {<<(<<"a">>), (<<";">>)>>,
     <<(<<"1">>), (<<";">>)>>,
     <<kw_return, (<<";">>)>>,
     <<kw_return, (<<"a">>), (<<";">>)>>,
     <<kw_while, (<<"a">>), (<<"{">>), (<<"}">>)>>,
     <<kw_let, (<<"x">>), (<<"=">>), (<<"1">>), (<<";">>)>>}

StmtSeqs == SeqsUpTo(StmtPool, MaxStmts) \ {<<>>}

RECURSIVE Flatten(_)
Flatten(ss) == IF ss = <<>> THEN <<>> ELSE Head(ss) \o Flatten(Tail(ss))

StmtSources == {Join(Flatten(ss)) : ss \in StmtSeqs}

\* the prefixed numbers `0b..`, `0o..` and `0x..` with digits of their base
PrefixedLiterals ==
    {[prefix |-> b.prefix, base |-> b.base, digits |-> d] :
        b \in {[prefix |-> "b", base |-> "Binary"],
               [prefix |-> "o", base |-> "Octal"],
               [prefix |-> "x", base |-> "Hexadecimal"]},
        d \in SeqsUpTo({"0", "1", "7", "F"}, MaxPrefixed)}

\* the prefixed numbers whose digits are digits of the base
ValidPrefixed ==
    {n \in PrefixedLiterals :
        /\ n.digits # <<>>
        /\ \A i \in 1..Len(n.digits) : IsDigitIn(n.digits[i], NumberBase[n.base])}

\* `0x1F;`: the literal as an expression statement
PrefixedSource(n) == <<"0", n.prefix>> \o n.digits \o <<";">>

PrefixedSources == {PrefixedSource(n) : n \in ValidPrefixed}

\* sources where the parser requires one kind of token and another token
\* stands there: the source, what is required and the token seen
ExpectCases ==
    {[words |-> <<kw_let, (<<"1">>), (<<";">>)>>,
      expected |-> "identifier", seen |-> NumberTT("Decimal", <<"1">>)],
     [words |-> <<kw_fun, (<<"(">>), (<<")">>), (<<"{">>), (<<"}">>)>>,
      expected |-> "identifier", seen |-> TT("Lparen")],
     [words |-> <<kw_fun, (<<"f">>), (<<"{">>), (<<"}">>)>>,
      expected |-> "(", seen |-> TT("Lbrace")],
     [words |-> <<kw_fun, (<<"f">>), (<<"(">>), (<<"x">>), ty_int, (<<")">>),
                  (<<"{">>), (<<"}">>)>>,
      expected |-> ":", seen |-> TTText("Identifier", ty_int)],
     [words |-> <<kw_while, (<<"a">>), (<<"}">>)>>,
      expected |-> "{", seen |-> TT("Rbrace")],
     [words |-> <<(<<"a">>), (<<")">>)>>,
      expected |-> ";", seen |-> TT("Rparen")],
     [words |-> <<(<<"f">>), (<<"(">>), (<<"a">>), (<<";">>), (<<")">>), (<<";">>)>>,
      expected |-> ",", seen |-> TT("Semicolon")]}

ExpectSources == {Join(c.words) : c \in ExpectCases}

kw_else == <<"e","l","s","e">>

kw_if == <<"i","f">>

kw_elseif == <<"e","l","s","e","i","f">>

\* `else if a { }`, `elseif a { }` and `else { }`
ElseIfSource == Join(<<kw_else, kw_if, (<<"a">>), (<<"{">>), (<<"}">>)>>)

ElseifSource == Join(<<kw_elseif, (<<"a">>), (<<"{">>), (<<"}">>)>>)

ElseSource == Join(<<kw_else, (<<"{">>), (<<"}">>)>>)

ElseSources == {ElseIfSource, ElseifSource, ElseSource}

\* `x , y , z` for n expressions
RECURSIVE ArgWords(_)
ArgWords(n) ==
    IF n = 0 THEN <<>>
    ELSE (IF n = 1 THEN <<>> ELSE ArgWords(n - 1) \o <<(<<",">>)>>)
         \o <<(<<ParamNames[n]>>)>>

\* the expressions of ArgWords(n)
ArgAsts(n) == [i \in 1..n |-> Ident(ParamNames[i])]

\* `f ( x , y ) ;`
CallSource(n) ==
    Join(<<(<<"f">>), (<<"(">>)>> \o ArgWords(n) \o <<(<<")">>), (<<";">>)>>)

\* `[ x , y ] ;`
ArraySource(n) == Join(<<(<<"[">>)>> \o ArgWords(n) \o <<(<<"]">>), (<<";">>)>>)

ListSources == {CallSource(n) : n \in 0..MaxArgs} \cup {ArraySource(n) : n \in 0..MaxArgs}

\* sources that end while a construct is open: a block without its `}`, a
\* parameter list and an argument list without their terminator, a
\* declaration without its value, a condition without its block
OpenSources ==
    {Join(<<kw_while, (<<"a">>), (<<"{">>)>>),
     Join(<<kw_if, (<<"a">>), (<<"{">>), (<<"a">>), (<<";">>)>>),
     Join(<<kw_fun, (<<"f">>), (<<"(">>), (<<"x">>), (<<":">>), ty_int>>),
     Join(<<kw_fun, (<<"f">>), (<<"(">>)>>),
     Join(<<(<<"f">>), (<<"(">>), (<<"a">>), (<<",">>)>>),
     Join(<<(<<"[">>), (<<"a">>), (<<",">>)>>),
     Join(<<kw_let, (<<"x">>)>>),
     Join(<<kw_const, (<<"x">>), (<<":">>), ty_int>>),
     Join(<<kw_while, (<<"a">>)>>),
     Join(<<kw_if, (<<"a">>)>>)}

\* i32::MAX, i64::MAX and the numbers around them
I32_MAX_TEXT == <<"2","1","4","7","4","8","3","6","4","7">>

I64_MAX_TEXT ==
    <<"9","2","2","3","3","7","2","0","3","6","8","5","4","7","7","5","8","0","7">>

\* decimal literals: short ones with zeros and underscores, and the numbers
\* around 2^31, 2^63 and 2^64
DecimalLiterals ==
    {d \in SeqsUpTo({"0", "1", "9", "_"}, MaxDecimal) : d # <<>> /\ d[1] # "_"}
        \cup {I32_MAX_TEXT, <<"0","0">> \o I32_MAX_TEXT,
              <<"2","_","1","4","7","4","8","3","6","4","8">>,
              <<"2","1","4","7","4","8","3","6","4","8">>,
              I64_MAX_TEXT,
              SubSeq(I64_MAX_TEXT, 1, 18) \o <<"8">>,
              SubSeq(I64_MAX_TEXT, 1, 18) \o <<"9">>,
              SubSeq(I64_MAX_TEXT, 1, 17) \o <<"_","1","0">>,
              <<"1","8","4","4","6","7","4","4","0","7","3","7","0","9","5","5",
                "1","6","1","6">>}

\* `2147483648;`: the literal as an expression statement
DecimalSource(d) == d \o <<";">>

DecimalSources == {DecimalSource(d) : d \in DecimalLiterals}

HexLetters == {"a","b","c","d","e","f","A","B","C","D","E","F"}

\* texts that begin with a decimal digit and have a hexadecimal letter
HexDecimalLiterals ==
    {d \in SeqsUpTo({"0", "1", "e", "E", "a", "F", "_"}, MaxHexDecimal) :
        /\ d # <<>>
        /\ d[1] \in {"0", "1"}
        /\ \E i \in 1..Len(d) : d[i] \in HexLetters}

HexDecimalSources == {DecimalSource(d) : d \in HexDecimalLiterals}

\* `( a` followed by a token that is not `)`, or by the end of the input
UnclosedParenSources ==
    {Join(<<(<<"(">>), (<<"a">>)>> \o rest) :
        rest \in {<<>>, <<(<<";">>)>>, <<(<<";">>), (<<";">>)>>,
                  <<(<<"}">>), (<<";">>)>>, <<(<<"]">>), (<<";">>)>>,
                  <<(<<",">>), (<<";">>)>>, <<(<<"a">>), (<<";">>)>>}}

\* `/* c */` and `// c` with its newline
BlockCommentText == <<"/", "*", " ", "c", " ", "*", "/">>

LineCommentText == <<"/", "/", " ", "c", LF>>

\* `a ;` with a comment before, between and after its two tokens
CommentedSources ==
    {pre \o <<"a">> \o mid \o <<";">> \o post :
        pre \in {<<>>, BlockCommentText, LineCommentText},
        mid \in {<<" ">>, BlockCommentText, LineCommentText},
        post \in {<<>>, BlockCommentText, LineCommentText}}

ParserSources ==
    GenSources \cup ReservedSources \cup PrecSources \cup {ExampleSource}
        \cup DeclSources
        \cup FunSources \cup StmtSources \cup PrefixedSources \cup ExpectSources
        \cup ElseSources \cup ListSources \cup OpenSources \cup DecimalSources
        \cup HexDecimalSources \cup UnclosedParenSources
        \cup CommentedSources

(***************************************************************************)
(* The state machines.  LexSpec drives a Lexer on its own, one read_token  *)
(* per step; Spec runs Parser::parse on a source.                          *)
(***************************************************************************)
InitOn(sources) ==
    /\ source \in sources
    /\ lexer = Lexer_new(source)
    /\ calls = 0
    /\ emitted = <<>>
    /\ parser = from_source(source)
    /\ pc = "start"
    /\ result = None

Init == InitOn(ParserSources)

LexInit == InitOn(LexSources)

IsEOF(r) == r.ok /\ r.val.token_type.kind = "EOF"

\* the number of read_token results that were the EOF token
RECURSIVE EofCount(_)
EofCount(rs) ==
    IF rs = <<>> THEN 0 ELSE (IF IsEOF(Head(rs)) THEN 1 ELSE 0) + EofCount(Tail(rs))

\* one call of Lexer::read_token
ReadToken ==
    /\ EofCount(emitted) <= MaxEofReads
    /\ LET r == read_token(lexer)
       IN /\ lexer' = r.lx
          /\ emitted' = Append(emitted, [ok |-> r.ok, val |-> r.val])
    /\ calls' = calls + 1
    /\ UNCHANGED <<source, parser, pc, result>>

\* Parser::parse, from the call to its return or its panic
Parse ==
    /\ pc = "start"
    /\ LET r == parse(parser)
       IN /\ parser' = r.p
          /\ result' = Some([st |-> r.st, val |-> r.val])
          /\ pc' = IF r.st = "Panic" THEN "panicked" ELSE "returned"
    /\ UNCHANGED <<source, lexer, calls, emitted>>

\* one call of Lexer::read, as long as a character is current
Read ==
    /\ lexer.current_char # None
    /\ lexer' = read(lexer)
    /\ calls' = calls + 1
    /\ UNCHANGED <<source, emitted, parser, pc, result>>

Next == Parse

LexNext == ReadToken

Spec == Init /\ [][Next]_vars

LexSpec == LexInit /\ [][LexNext]_vars

StringInit == InitOn(StringSources)

StringSpec == StringInit /\ [][LexNext]_vars

OperatorInit == InitOn(OperatorSources)

OperatorSpec == OperatorInit /\ [][LexNext]_vars

WordInit == InitOn(WordSources)

WordSpec == WordInit /\ [][LexNext]_vars

CommentInit == InitOn(CommentSources)

CommentSpec == CommentInit /\ [][LexNext]_vars

ReadInit == InitOn(NewlineSources)

ReadNext == Read

ReadSpec == ReadInit /\ [][ReadNext]_vars

TypeOK == pc \in {"start", "returned", "panicked"}

(***************************************************************************)
(* Properties of Parser::parse (checked under Spec).                       *)
(***************************************************************************)
Returned == pc = "returned"

Finished == pc # "start"

OkProgram(statements) == [st |-> "Ok", val |-> Program(statements)]

\* C1: on every source parse returns a value, Ok(Program) or Err(list) with a
\* non-empty list; it never aborts on an unwrap or an operator conversion.
C1_ParseReturns ==
    Finished =>
        /\ pc = "returned"
        /\ result[1].st \in {"Ok", "Err"}
        /\ result[1].st = "Err" => result[1].val # <<>>

\* C2: `a o1 b o2 c` with precedence(o1) < precedence(o2) parses to
\* BinaryExpression(a, o1, BinaryExpression(b, o2, c)), and `1 + 2 * 3 ^ 4` to
\* BinaryExpression(1, +, BinaryExpression(2, *, BinaryExpression(3, ^, 4))).
C2_PrecedenceLaw ==
    /\ \A o1 \in PrecOps, o2 \in PrecOps :
          (/\ BINARY_OPERATOR_MAP[o1.kind] < BINARY_OPERATOR_MAP[o2.kind]
           /\ source = PrecSource(o1, o2)
           /\ Finished)
          => /\ Returned
             /\ result[1] = OkProgram(<<ExpressionStmt(
                    BinaryExpression(Ident("a"), BinaryOperatorOf[o1.kind],
                        BinaryExpression(Ident("b"), BinaryOperatorOf[o2.kind],
                                         Ident("c"))))>>)
    /\ (source = ExampleSource /\ Finished)
       => Returned /\ result[1] = OkProgram(<<ExpressionStmt(ExampleAst)>>)

\* C3: `a o b o c` parses to BinaryExpression(BinaryExpression(a, o, b), o, c)
\* for every binary operator o.
C3_LeftAssociativity ==
    \A o \in PrecOps :
        (source = PrecSource(o, o) /\ Finished)
        => /\ Returned
           /\ result[1] = OkProgram(<<ExpressionStmt(
                  BinaryExpression(
                      BinaryExpression(Ident("a"), BinaryOperatorOf[o.kind], Ident("b")),
                      BinaryOperatorOf[o.kind], Ident("c")))>>)

\* the parameters Variable{name: pi, category: int} of ParamWords(n)
ParamAsts(n) == [i \in 1..n |-> Variable(<<ParamNames[i]>>, Type(ty_int))]

\* C4: `fun f(p1: T1, ..., pn: Tn) -> R { body }` parses to one FunDeclaration
\* with the name, the n parameters in order, the return type R (the empty
\* string when `-> R` is omitted) and the statements of the body.
C4_FunctionDeclaration ==
    \A n \in 0..MaxParams, arrow \in BOOLEAN, b \in FunBodies :
        (source = FunSource(n, arrow, b.words) /\ Finished)
        => /\ Returned
           /\ result[1] = OkProgram(<<FunDeclaration(
                  <<"f">>, ParamAsts(n), b.ast,
                  Type(IF arrow THEN ty_int ELSE <<>>))>>)

\* C5: `let name = expr;` and `const name = expr;`, with or without the
\* annotation `name: Type`, parse to VariableDeclaration(kind,
\* Variable{name, category}, AST of expr), category empty when elided.
C5_VariableDeclaration ==
    \A kw \in {[words |-> kw_let, kind |-> "Let"], [words |-> kw_const, kind |-> "Const"]},
       annotated \in BOOLEAN, e \in DeclExprs :
        (source = DeclSource(kw.words, annotated, e.words) /\ Finished)
        => /\ Returned
           /\ result[1] = OkProgram(<<VariableDeclaration(
                  kw.kind,
                  Variable(<<"x">>, Type(IF annotated THEN ty_int ELSE <<>>)),
                  e.ast)>>)

\* C6: a source that is one reserved keyword alone gives Err with exactly one
\* diagnostic, of kind ReservedKeyword (for that keyword).
C6_ReservedKeywordRejected ==
    \A k \in KEYWORDS :
        (k.keyword.sub = "Reserved" /\ source = k.text /\ Finished)
        => /\ Returned
           /\ result[1].st = "Err"
           /\ Len(result[1].val) = 1
           /\ result[1].val[1].kind = "ReservedKeyword"
           /\ result[1].val[1].token_type = k.keyword

\* a reserved keyword alone has been parsed and rejected
C6_Witness ==
    /\ Returned
    /\ source = <<"s","t","r","u","c","t">>
    /\ result[1].st = "Err"
    /\ result[1].val[1].token_type = Reserved("Struct")

\* the value parse returns on a source
ParseOf(src) == LET r == parse(from_source(src)) IN [st |-> r.st, val |-> r.val]

\* the source parsed alone yields a Program of one statement
ParsesAlone(words) ==
    /\ ParseOf(Join(words)).st = "Ok"
    /\ Len(ParseOf(Join(words)).val.statements) = 1

\* C7: when each statement s1 ... sn parsed alone yields the Program [Si],
\* their concatenation parses to Ok(Program [S1, ..., Sn]).
C7_StatementsCompose ==
    \A ss \in StmtSeqs :
        (/\ Finished
         /\ source = Join(Flatten(ss))
         /\ \A i \in 1..Len(ss) : ParsesAlone(ss[i]))
        => /\ Returned
           /\ result[1] = OkProgram(
                  [i \in 1..Len(ss) |-> ParseOf(Join(ss[i])).val.statements[1]])

(***************************************************************************)
(* Properties of Lexer::read_token (checked under LexSpec).                *)
(***************************************************************************)
Last(q) == q[Len(q)]

\* characters not yet passed: the current one and those left in the iterator
Remaining(lx) == Len(lx.input) + (IF lx.current_char = None THEN 0 ELSE 1)

\* C8: once read_token has returned EOF, every later call returns EOF again
\* and the position of the lexer no longer changes.
C8_EofAbsorbing ==
    [][(emitted # <<>> /\ IsEOF(Last(emitted)))
       => (IsEOF(Last(emitted')) /\ lexer'.position = lexer.position)]_vars

\* read_token was called again after EOF, on a source that has tokens
C8_Witness ==
    /\ Len(emitted) >= 3
    /\ ~IsEOF(emitted[1])
    /\ IsEOF(emitted[Len(emitted) - 1])
    /\ IsEOF(Last(emitted))

C10_PositionMonotone ==
    /\ [](\A i \in 1..Len(emitted), j \in 1..Len(emitted) :
             (i < j /\ emitted[i].ok /\ emitted[j].ok)
             => PosLeq(emitted[i].val.location.end, emitted[j].val.location.begin))
    /\ [][PosLeq(lexer.position, lexer'.position)]_vars

\* two tokens, the second on a later line and at a smaller column
C10_Witness ==
    \E i \in 1..Len(emitted), j \in 1..Len(emitted) :
        /\ i < j /\ emitted[i].ok /\ emitted[j].ok
        /\ emitted[j].val.token_type.kind # "EOF"
        /\ emitted[i].val.location.end.line < emitted[j].val.location.begin.line
        /\ emitted[j].val.location.begin.column < emitted[i].val.location.end.column

(***************************************************************************)
(* Properties of Lexer::read (checked under ReadSpec).                     *)
(***************************************************************************)
\* the line-terminator sequences of a text of LF and CR: every character but
\* the LF of a CR LF pair starts one
TerminatorCount(s) ==
    Cardinality({i \in 1..Len(s) : ~(s[i] = LF /\ i > 1 /\ s[i - 1] = CR)})

RECURSIVE PositionOfChar(_, _)
PositionOfChar(text, n) ==
    IF n = 0 THEN Position(1, 0)
    ELSE PositionAfter(IF n = 1 THEN None ELSE Some(text[n - 1]), text[n],
                       PositionOfChar(text, n - 1))

\* the characters taken from the iterator: the index of the current one
Consumed(lx) == Len(source) - Len(lx.input)

\* the index of the first character of the first token of a text
RECURSIVE FirstNonSpace(_, _)
FirstNonSpace(text, i) ==
    IF i <= Len(text) /\ is_whitespace(text[i]) THEN FirstNonSpace(text, i + 1) ELSE i

\* C12: after any sequence of read_token calls the position of the lexer is
\* the (line, column) of its current character in the source, and a token
\* begins at the line and column of its first character.
C12_TruePositions ==
    /\ lexer.current_char # None
          => lexer.position = PositionOfChar(source, Consumed(lexer))
    /\ (emitted # <<>> /\ emitted[1].ok /\ ~IsEOF(emitted[1]))
          => emitted[1].val.location.begin =
                 PositionOfChar(source, FirstNonSpace(source, 1))

\* C13: every Span of a token returned by read_token has begin < end in
\* (line, column) order.
C13_SpanInvariant ==
    \A i \in 1..Len(emitted) :
        (emitted[i].ok /\ emitted[i].val.location.tag = "Span")
            => PosLt(emitted[i].val.location.begin, emitted[i].val.location.end)

(***************************************************************************)
(* Properties of comments (checked under CommentSpec).                     *)
(***************************************************************************)
\* the source begins with the two characters
StartsWith(text, c1, c2) == Len(text) >= 2 /\ text[1] = c1 /\ text[2] = c2

\* the index of the first newline at or after index i, Len + 1 when none
RECURSIVE NewlineIndex(_, _)
NewlineIndex(text, i) ==
    IF i <= Len(text) /\ ~is_newline(text[i]) THEN NewlineIndex(text, i + 1) ELSE i

\* the index of the `*` of the first `*/` at or after index i, 0 when none
RECURSIVE CloseIndex(_, _)
CloseIndex(text, i) ==
    IF i >= Len(text) THEN 0
    ELSE IF text[i] = "*" /\ text[i + 1] = "/" THEN i
    ELSE CloseIndex(text, i + 1)

\* the first call of read_token has returned
FirstCall == Len(emitted) = 1

\* C14: on a source that begins with `//` read_token returns one Comment
\* whose text is the characters up to, and not including, the next newline,
\* and the lexer stands right after the comment.
C14_LineComment ==
    (FirstCall /\ StartsWith(source, "/", "/"))
    => /\ emitted[1].ok
       /\ emitted[1].val.token_type.kind = "Comment"
       /\ emitted[1].val.token_type.text \in
              {SubSeq(source, 3, NewlineIndex(source, 3) - 1),
               SubSeq(source, 1, NewlineIndex(source, 3) - 1)}
       /\ Remaining(lexer) = Len(source) - (NewlineIndex(source, 3) - 1)

\* C15: on a source that begins with `/*` and has a `*/` later, read_token
\* returns one Comment carrying the body and the lexer stands right after
\* that `*/`.
C15_BlockComment ==
    (FirstCall /\ StartsWith(source, "/", "*") /\ CloseIndex(source, 3) # 0)
    => /\ emitted[1].ok
       /\ emitted[1].val.token_type.kind = "Comment"
       /\ emitted[1].val.token_type.text \in
              {SubSeq(source, 3, CloseIndex(source, 3) - 1),
               SubSeq(source, 1, CloseIndex(source, 3) + 1)}
       /\ Remaining(lexer) = Len(source) - (CloseIndex(source, 3) + 1)

(***************************************************************************)
(* Properties of numeric literals (checked under Spec).                    *)
(***************************************************************************)
\* the first token read_token returns on a source
FirstToken(src) == read_token(Lexer_new(src)).val

\* C16: `0b`, `0o` or `0x` followed by digits of base 2, 8 or 16 is lexed as
\* one Number token tagged Binary, Octal or Hexadecimal with the digits after
\* the prefix as text, and parsed to the Literal Number of that value
\* (`0x1F` is 31, `0b101` is 5).
C16_PrefixedNumbers ==
    \A n \in ValidPrefixed :
        (source = PrefixedSource(n) /\ Finished)
        => /\ FirstToken(source).token_type = NumberTT(n.base, n.digits)
           /\ Returned
           /\ result[1] = OkProgram(<<ExpressionStmt(
                  IntLit(DigitsValue(n.digits, NumberBase[n.base], 0)))>>)

(***************************************************************************)
(* Properties of string literals (checked under StringSpec).               *)
(***************************************************************************)
\* the character at index i of a string literal opened at index k is escaped:
\* it follows a backslash that is not itself escaped
RECURSIVE Escaped(_, _, _)
Escaped(text, k, i) ==
    i > k + 1 /\ text[i - 1] = "\\" /\ ~Escaped(text, k, i - 1)

\* the index of the first quote after k that is not escaped, 0 when none
ClosingIndex(text, k) ==
    LET closing == {i \in (k + 1)..Len(text) : text[i] = "\"" /\ ~Escaped(text, k, i)}
    IN IF closing = {} THEN 0 ELSE CHOOSE i \in closing : \A j \in closing : i <= j

\* no newline and no control character strictly between k and c
CleanBetween(text, k, c) ==
    \A i \in (k + 1)..(c - 1) : ~is_newline(text[i]) /\ ~is_control(text[i])

\* the lexer stands on the opening quote of a literal that is closed and holds
\* no newline and no control character
AtClosedString ==
    /\ lexer.current_char = Some("\"")
    /\ ClosingIndex(source, Consumed(lexer)) # 0
    /\ CleanBetween(source, Consumed(lexer), ClosingIndex(source, Consumed(lexer)))

\* the text from the opening quote the lexer stands on through its closing quote
QuotedText == SubSeq(source, Consumed(lexer), ClosingIndex(source, Consumed(lexer)))

\* the characters after the closing quote
AfterQuote == SubSeq(source, ClosingIndex(source, Consumed(lexer)) + 1, Len(source))

\* C17: from an opening quote read_string returns the raw text through the
\* first later quote that is not escaped (a backslash escapes the next
\* character, an escaped backslash does not), quotes and backslashes kept, and
\* leaves the characters after the closing quote unread; read_token returns it
\* as the Literal token and goes on with the character after the quote.
C17_StringLiteral ==
    [][AtClosedString
       => /\ read_string(lexer).ok
          /\ read_string(lexer).val = QuotedText
          /\ read_string(lexer).lx.input = AfterQuote
          /\ Last(emitted').ok
          /\ Last(emitted').val.token_type = TTText("Literal", QuotedText)
          /\ lexer'.current_char =
                 (IF AfterQuote = <<>> THEN None ELSE Some(Head(AfterQuote)))
          /\ lexer'.input = (IF AfterQuote = <<>> THEN <<>> ELSE Tail(AfterQuote))]_vars

\* `"\\"a` was lexed: the escaped backslash did not escape the closing quote,
\* and `a` is the current character
C17_Witness ==
    /\ source = <<"\"", "\\", "\\", "\"", "a">>
    /\ Len(emitted) = 1
    /\ emitted[1].ok
    /\ emitted[1].val.token_type = TTText("Literal", <<"\"", "\\", "\\", "\"">>)
    /\ lexer.current_char = Some("a")

\* C18: in a string literal, before its closing quote, a newline gives
\* UnterminatedString located at the position of that newline, another
\* control character gives InvalidString with the text read so far, and the
\* end of the input gives UnexpectedEOF; read_token returns the error.
C18_StringErrors ==
    (emitted # <<>> /\ ~Last(emitted).ok)
    => IF lexer.current_char = None
       THEN Last(emitted).val.kind = "UnexpectedEOF"
       ELSE IF is_newline(lexer.current_char[1])
       THEN /\ Last(emitted).val.kind = "UnterminatedString"
            /\ Last(emitted).val.location =
                   AtPosition(PositionOfChar(source, Consumed(lexer)))
       ELSE /\ Last(emitted).val.kind = "InvalidString"
            /\ \E k \in 1..(Consumed(lexer) - 1) :
                  /\ source[k] = "\""
                  /\ Last(emitted).val.text = SubSeq(source, k, Consumed(lexer) - 1)

(***************************************************************************)
(* Properties of the operators (checked under OperatorSpec).               *)
(***************************************************************************)
\* the two-character operators and the token of their first character alone
OperatorPairs ==
    {[first |-> "-", second |-> ">", pair |-> "Arrow", single |-> "Minus"],
     [first |-> "=", second |-> "=", pair |-> "EqEq", single |-> "Eq"],
     [first |-> "!", second |-> "=", pair |-> "NotEq", single |-> "Not"],
     [first |-> "<", second |-> "=", pair |-> "LtEq", single |-> "Lt"],
     [first |-> ">", second |-> "=", pair |-> "GtEq", single |-> "Gt"],
     [first |-> "|", second |-> "|", pair |-> "OrOr", single |-> "Or"],
     [first |-> "&", second |-> "&", pair |-> "AndAnd", single |-> "And"]}

\* the lexer stands on the first of the characters of text and the rest is left
StandsOn(lx, text) ==
    /\ lx.current_char = (IF text = <<>> THEN None ELSE Some(Head(text)))
    /\ lx.input = (IF text = <<>> THEN <<>> ELSE Tail(text))

\* the token types of the results returned so far
Kinds == [i \in 1..Len(emitted) |-> emitted[i].val.token_type]

\* C19: a two-character operator is returned as one token and both characters
\* are consumed; its first character followed by anything else is returned as
\* the one-character token and the following character is left to begin the
\* next token.  `let input = 5;` gives Let, Identifier("input"), Eq,
\* Decimal("5"), Semicolon and EOF.
C19_OperatorLookahead ==
    /\ [][\A o \in OperatorPairs :
            lexer.current_char = Some(o.first)
            => /\ Last(emitted').ok
               /\ IF Lexer_peek(lexer) = Some(o.second)
                  THEN /\ Last(emitted').val.token_type = TT(o.pair)
                       /\ StandsOn(lexer', SubSeq(source, Consumed(lexer) + 2,
                                                  Len(source)))
                  ELSE /\ Last(emitted').val.token_type = TT(o.single)
                       /\ StandsOn(lexer', SubSeq(source, Consumed(lexer) + 1,
                                                  Len(source)))]_vars
    /\ []((source = LetInputSource /\ Len(emitted) = 6)
          => /\ \A i \in 1..6 : emitted[i].ok
             /\ Kinds = <<Active("Let"),
                          TTText("Identifier", <<"i","n","p","u","t">>),
                          TT("Eq"), NumberTT("Decimal", <<"5">>),
                          TT("Semicolon"), TT("EOF")>>)

\* `>=-` was lexed as GtEq and Minus
C19_Witness ==
    /\ source = <<">", "=", "-">>
    /\ Len(emitted) = 2
    /\ Kinds = <<TT("GtEq"), TT("Minus")>>

(***************************************************************************)
(* Properties of words (checked under WordSpec).                           *)
(***************************************************************************)
\* the index of the last character of the greedy run of alphabetic
\* characters and `_` that begins at index i
RECURSIVE RunEnd(_, _)
RunEnd(text, i) ==
    IF i < Len(text) /\ (is_alphabetic(text[i + 1]) \/ text[i + 1] = "_")
    THEN RunEnd(text, i + 1)
    ELSE i

\* the same with the optional trailing `?`
WordEnd(text, i) ==
    IF RunEnd(text, i) < Len(text) /\ text[RunEnd(text, i) + 1] = "?"
    THEN RunEnd(text, i) + 1
    ELSE RunEnd(text, i)

\* the identifier run that begins at the current character of the lexer
WordAt == SubSeq(source, Consumed(lexer), WordEnd(source, Consumed(lexer)))

KeywordTexts == {k.text : k \in KEYWORDS}

\* the token of a word by exact match
Classified(word) ==
    IF word = <<"t","r","u","e">> THEN BooleanTT(TRUE)
    ELSE IF word = <<"f","a","l","s","e">> THEN BooleanTT(FALSE)
    ELSE IF word \in KeywordTexts
    THEN (CHOOSE k \in KEYWORDS : k.text = word).keyword
    ELSE TTText("Identifier", word)

\* C20: the text of an identifier run is classified by exact, case-sensitive
\* match: `true` and `false` give Boolean, an entry of the keyword table gives
\* its Keyword, any other text gives Identifier with the text; a Keyword token
\* comes only from a text of the table.
C20_WordClassification ==
    [][(lexer.current_char # None /\ is_alphabetic(lexer.current_char[1]))
       => /\ Last(emitted').ok
          /\ Last(emitted').val.token_type = Classified(WordAt)
          /\ Last(emitted').val.token_type.kind = "Keyword"
                 => WordAt \in KeywordTexts]_vars

\* `While` was lexed as an identifier, not as the keyword
C20_Witness ==
    /\ source = <<"W","h","i","l","e">>
    /\ Len(emitted) = 1
    /\ emitted[1].val.token_type = TTText("Identifier", <<"W","h","i","l","e">>)

(***************************************************************************)
(* Properties of the diagnostics of Parser::parse (checked under Spec).    *)
(***************************************************************************)
\* the diagnostics of the parse that returned Err, none otherwise
Diagnostics ==
    IF Returned /\ result[1].st = "Err" THEN result[1].val ELSE <<>>

\* C21: when the parser requires a specific token kind (an identifier after
\* let or fun, `(`, `:`, `{`, `;`, the `,` of a list) and another token
\* stands there, the diagnostic recorded is ExpectedToken with the token seen.
C21_ExpectedToken ==
    \A c \in ExpectCases :
        (source = Join(c.words) /\ Finished)
        => \E i \in 1..Len(Diagnostics) :
              /\ Diagnostics[i].kind = "ExpectedToken"
              /\ Diagnostics[i].token_type = c.seen

\* C22: at statement position `else if c { ... }` and `elseif c { ... }`
\* both parse to Conditional(Elseif, Some(c), block), and a lone
\* `else { ... }` parses to Conditional(Else, None, block).
C22_ElseChaining ==
    /\ (source \in {ElseIfSource, ElseifSource} /\ Finished)
       => /\ Returned
          /\ result[1] = OkProgram(<<Conditional("Elseif", Some(Ident("a")), <<>>)>>)
    /\ (source = ElseSource /\ Finished)
       => /\ Returned
          /\ result[1] = OkProgram(<<Conditional("Else", None, <<>>)>>)

\* C23: a call `f(e1, ..., en)` or an array literal `[e1, ..., en]` with
\* n >= 1 expressions separated by commas and no trailing comma parses to the
\* list [E1, ..., En] in source order; `f()` and `[]` parse to the empty list.
C23_ExpressionLists ==
    \A n \in 0..MaxArgs :
        /\ (source = CallSource(n) /\ Finished)
           => /\ Returned
              /\ result[1] = OkProgram(<<ExpressionStmt(FunCall(<<"f">>, ArgAsts(n)))>>)
        /\ (source = ArraySource(n) /\ Finished)
           => /\ Returned
              /\ result[1] = OkProgram(<<ExpressionStmt(ExLiteral(LitArray(ArgAsts(n))))>>)

\* C24: whenever parse returns, Ok or Err, the lexer has been driven to its
\* end: no character of the source is left unread, also when an illegal
\* character or a lexer error occurred earlier in the input.
C24_LexerExhausted == Returned => Remaining(parser.lexer) = 0

\* C25: when the input ends while a construct is still open (a block
\* without its `}`, a parameter or argument list without its terminator, a
\* declaration without its value, a condition without its block), parse
\* returns Err with a list of diagnostics that contains UnexpectedEOF.
C25_UnexpectedEOF ==
    (source \in OpenSources /\ Finished)
    => /\ Returned
       /\ \E i \in 1..Len(Diagnostics) : Diagnostics[i].kind = "UnexpectedEOF"

(***************************************************************************)
(* Line counting of Lexer::read (checked under ReadSpec).                  *)
(***************************************************************************)
\* the length of the last line-terminator sequence of a text of LF and CR
LastSequenceLen(s) ==
    IF Len(s) >= 2 /\ s[Len(s) - 1] = CR /\ s[Len(s)] = LF THEN 2 ELSE 1

\* the index in the source of the current character of the lexer
ReadIndex(lx) == Len(source) - Len(lx.input)

NatBits(n) ==
    With(Cardinality({k \in 0..30 : n \div (2 ^ k) > 0}), LAMBDA len :
        [i \in 1..len |-> (n \div (2 ^ (len - i))) % 2])

\* the decimal digits of a literal as numbers, underscores left out
DecimalValue(d) ==
    [i \in 1..Len(StripUnderscores(d)) |-> DigitVal[StripUnderscores(d)[i]]]

\* the binary digits of the value a Number holds; a Number that holds no
\* finite value has none
ValueBits(n) ==
    IF n.num = "Int" THEN <<NatBits(n.value)>>
    ELSE IF n.num = "Long"
    THEN <<ToBits([i \in 1..Len(n.digits) |-> DigitVal[n.digits[i]]])>>
    ELSE IF n.value.inf THEN <<>> ELSE <<n.value.bits>>

\* the literals of the set these that the source consists of, followed by
\* `;`: one literal, or none
SourceLiteral(these) == {SubSeq(source, 1, Len(source) - 1)} \cap these

\* the decimal literal d was lexed as one Decimal token and its statement
\* parsed
ParsedDecimal(d) ==
    /\ source = DecimalSource(d)
    /\ FirstToken(source).token_type = NumberTT("Decimal", d)
    /\ Finished

\* the Number literal of the only statement of the Program returned
ParsedNumber == result[1].val.statements[1].expr.lit.num

\* parse returned a Program of one expression statement, a Number literal
ReturnedNumber ==
    /\ Returned
    /\ result[1].st = "Ok"
    /\ Len(result[1].val.statements) = 1
    /\ result[1].val.statements[1].stmt = "Expression"
    /\ result[1].val.statements[1].expr.node = "Literal"
    /\ result[1].val.statements[1].expr.lit.lit = "Number"

\* the variant the claim gives a value with these binary digits
WidthOf(bits) ==
    IF Len(bits) <= 31 THEN "Int" ELSE IF Len(bits) <= 63 THEN "Long" ELSE "Float"

\* the Number parsed is of the variant the claim gives a value with the
\* binary digits v
ParsedVariant(v) == ReturnedNumber /\ ParsedNumber.num = WidthOf(v)

Rounded53(v) ==
    {m \o Rep(Len(v) - 53, 0) : m \in {SubSeq(v, 1, 53), Increment(SubSeq(v, 1, 53))}}

ReportsInvalidNumber(text) ==
    \E i \in 1..Len(Diagnostics) :
        Diagnostics[i].kind = "InvalidNumber" /\ Diagnostics[i].text = text

\* C28 as stated: a Decimal token whose text has a hexadecimal letter always
\* fails the numeric conversion: parse reports InvalidNumber for it and
\* produces no Number literal from it.
C28_HexLetterRejected ==
    \A d \in SourceLiteral(HexDecimalLiterals) :
        ParsedDecimal(d) => ReportsInvalidNumber(StripUnderscores(d))

\* decimal digits, one `e` or `E`, decimal digits: the exponent notation
ExponentForm(text) ==
    \E k \in 2..(Len(text) - 1) :
        /\ text[k] \in {"e", "E"}
        /\ \A i \in (1..Len(text)) \ {k} : text[i] \in DecimalDigits

\* C28 as amended: a Decimal token whose text has a hexadecimal letter fails
\* the numeric conversion and parse reports InvalidNumber for it, unless the
\* text without its underscores is decimal digits, one `e` or `E` and decimal
\* digits: that text is a float in exponent notation and gives a Float.
C28_HexLetterOrExponent ==
    \A d \in SourceLiteral(HexDecimalLiterals) :
        ParsedDecimal(d)
        => IF ExponentForm(StripUnderscores(d))
           THEN ReturnedNumber /\ ParsedNumber.num = "Float"
           ELSE ReportsInvalidNumber(StripUnderscores(d))

\* `1F;` was reported as an invalid number
C28_Witness ==
    /\ source = <<"1", "F", ";">>
    /\ FirstToken(source).token_type = NumberTT("Decimal", <<"1", "F">>)
    /\ ReportsInvalidNumber(<<"1", "F">>)

\* C29: when, after `(` and the inner expression, the current token is not
\* `)` (another token, or the end of the input), the enclosing statement is
\* rejected with a diagnostic: `( expr` followed by a token that is not `)`
\* is never accepted and that token is never dropped silently.
C29_ParenRequired ==
    (source \in UnclosedParenSources /\ Finished)
    => Returned /\ result[1].st = "Err" /\ result[1].val # <<>>

\* C30: the parser discards the Comment tokens: a comment inserted between
\* two tokens of a source does not change the result of parse; `a ;` with
\* comments before, between or after its tokens is the Program [a].
C30_CommentsDiscarded ==
    (source \in CommentedSources /\ Finished)
    => Returned /\ result[1] = OkProgram(<<ExpressionStmt(Ident("a"))>>)

====
